---- MODULE Spec2Model ----
(***************************************************************************)
(* Fixture / prediction ingestion pipeline of the Fetcher repository:      *)
(*   - retry_on_failure, upsert_fixture (fixtures_fetcher.py)              *)
(*   - calculate_interval_averages (app.py)                                *)
(*   - store_fixture_async, fetch_and_store_fixtures (app.py)              *)
(*   - fetch_prediction_async, store_prediction_async,                     *)
(*     fetch_predictions_batch and the batch loop of main (app.py)         *)
(*   - the "Ask AI" handler of main, insert_match_predictions and          *)
(*     get_ai_prediction (app.py)                                          *)
(*   - scheduled_task (app.py)                                             *)
(*   - two execution contexts running store_fixture_async at once          *)
(*   - process_team_stats and the stats record (app.py)                    *)
(*   - two store_prediction_async invocations for one fixture id           *)
(*   - fetch_fixtures (fixtures_fetcher.py)                                *)
(* Each component has its own specification; the variables of the other    *)
(* components stay at their idle values.                                   *)
(*                                                                         *)
(* The store client is modelled at the interface the code uses: execute()  *)
(* is awaited, the store then applies the write or rejects it (which       *)
(* raises in the awaiting task), and the two are separate steps: a task    *)
(* can be cancelled while its request is with the store.                   *)
(***************************************************************************)
EXTENDS Integers, Sequences, FiniteSets, TLC

VARIABLES
    \* ---- calculate_interval_averages ----
    minute_data,      \* interval label -> bucket [present, total]
    games_played,     \* divisor
    agg_pc,           \* "input" | "done"
    first_half,       \* optional average, in hundredths
    second_half,      \* optional average, in hundredths
    divisions,        \* number of divisions the call performed
    \* ---- retry_on_failure ----
    max_attempts,     \* decorator parameter
    delay_seconds,    \* decorator parameter
    rw_pc,            \* invocation -> "idle" | "loop" | "call" | "sleep" | "done"
    attempts,         \* invocation -> local counter of the wrapper
    rw_calls,         \* invocation -> number of times func was invoked
    rw_raised,        \* invocation -> how many of those invocations raised
    rw_slept,         \* invocation -> seconds slept so far
    rw_outcomes,      \* invocation -> what each of its calls of func did, in order
    rw_result,        \* invocation -> "none" | "True" | "False" | "raised"
    \* ---- fetch_and_store_fixtures / store_fixture_async ----
    football_fixtures,  \* the table: a set of rows
    fx_response,      \* fixtures_data['response'] the provider gives for the date
    fx_run,           \* number of calls so far; the clock read by utcnow()
    fx_pc,            \* "idle" | "request" | "gather" | "cleanup"
    fx_tasks,         \* state of each store_fixture_async task of the gather
    fx_return,        \* the value the call returns, None until it does
    fx_failed,        \* tasks whose record failed: mapping error or store rejection
    fx_applied,       \* tasks whose upsert the store applied in this call
    fx_status,        \* "none" | "ok" | "error": how the provider request ended
    fx_upserts,       \* fixture id -> the records of the upserts applied, in order
    fx_history,       \* per finished call: count returned, ids and rows in the table
    \* ---- main's batch loop / fetch_predictions_batch / store_prediction_async ----
    football_predictions,        \* the table: a set of rows
    football_predictions_stats,  \* the table: a set of rows
    fixture_ids,      \* main: the ids of the upcoming major-league fixtures
    m_pc,             \* main: "start" | "loop" | "batch" | "after" | "sleep" | "done"
    m_i,              \* main: the loop variable i
    successful_total, \* main
    failed_ids,       \* main
    batch,            \* the argument of the running fetch_predictions_batch
    b_pc,             \* batch: "off" | "await" | "storing" | "returned"
    b_cur,            \* batch: the fixture id store_prediction_async is working on
    b_taken,          \* batch: number of completed tasks the loop has consumed
    completed,        \* fixture ids whose fetch resolved, in completion order
    p_fetch,          \* fixture id -> "none" | "inflight" | "resolved"
    p_result,         \* fixture id -> what fetch_prediction_async got from the provider
    up_pred,          \* fixture id -> state of its football_predictions upsert
    up_stats,         \* fixture id -> state of its football_predictions_stats upsert
    successful_predictions,  \* batch
    failed_predictions,      \* batch
    faults,           \* provider failures and store rejections so far
    \* ---- main's "Ask AI" handler / insert_match_predictions / get_ai_prediction ----
    match_predictions,  \* the table: a set of rows, each with the id the store gave it
    ai_pc,            \* "idle" | "invoke" | "parse" | "insert"
    ai_fixture,       \* the fixture the running invocation is for
    ai_response,      \* what the generation service answered
    ai_invokes,       \* llm.invoke calls of the running invocation
    ai_runs,          \* invocations started so far
    ai_rows_before,   \* the table when the running invocation started
    ai_log,           \* per finished invocation: how it ended and what it did
    ai_inserted,      \* every row an insert of the store applied, in order
    q_fixture,        \* get_ai_prediction: the fixture of the last call
    q_ok,             \* get_ai_prediction: whether the store answered the query
    q_rows,           \* get_ai_prediction: rows the table held for the fixture
    q_result,         \* get_ai_prediction: the value returned, None before a call
    \* ---- upsert_fixture, decorated with retry_on_failure(3, 1) ----
    fixtures,         \* the table: a set of rows
    uf_doc,           \* invocation -> the fixture document it is given
    uf_store_calls,   \* invocation -> upserts it sent to the store
    uf_store_raised,  \* invocation -> how many of those the store raised on
    \* ---- pacing of main's prediction requests ----
    slept,            \* seconds main has slept since it last dispatched a request
    p_gap,            \* fixture id -> seconds slept between the request before it
                      \*   and its own request; -1 until it is dispatched
    \* ---- scheduled_task ----
    clock,            \* wall clock (UTC), in seconds since a midnight
    sched_pc,         \* "check" | "fetch" | "pause" | "sleep"
    sched_i,          \* the loop variable of `for i in range(3)`
    sched_fired,      \* the days (0, 1, ...) on which the ingestion was started
    sched_since,      \* seconds since the last fixture-date request, counted up
                      \*   to FIXTURE_DELAY; -1 before the first request
    sched_min_gap,    \* the smallest such count found when a request was sent
    sched_date,       \* current_date of the last firing; -1 before the first
    sched_dates,      \* the target dates of the last firing, in request order
    sched_failed,     \* whether an ingestion of the last firing failed (returned 0)
    \* ---- store_fixture_async in two execution contexts ----
    ctx_doc,          \* context -> the fixture document its task is given
    ctx_pc,           \* context -> state of its store_fixture_async task
    ctx_record,       \* context -> the record it sent to the store, None before
    ctx_clock,        \* the clock read by datetime.utcnow()
    ctx_order,        \* the contexts whose upsert the store applied, in order
    \* ---- process_team_stats and the stats record of store_prediction_async ----
    ts_team,          \* team_data: games played per venue and three minute tables
    ts_pc,            \* "input" | "processed" | "built"
    ts_stats,         \* the dict process_team_stats returned
    ts_row,           \* the ten fields of the team in stats_record
    \* ---- two store_prediction_async invocations for one fixture id ----
    pair_id,          \* the fixture id both invocations are given
    pair_data,        \* invocation -> the provider data it is given
    pair_pc,          \* invocation -> "idle" | "gather" | "True" | "False"
    pair_pred,        \* invocation -> state of its football_predictions upsert
    pair_stats,       \* invocation -> state of its football_predictions_stats upsert
    \* ---- fetch_fixtures (fixtures_fetcher.py) ----
    ff_response,      \* data["response"] the provider gives when the request succeeds
    ff_pc,            \* "request" | "loop" | "done"
    ff_status,        \* "none" | "ok" | "request_failed" | "unexpected"
    ff_calls,         \* the documents passed to upsert_fixture, in call order
    ff_results,       \* what each of those calls returned
    success_count,    \* the local counter of fetch_fixtures
    total_fixtures    \* len(data["response"])

aggVars == <<minute_data, games_played, agg_pc, first_half, second_half, divisions>>
retryVars == <<max_attempts, delay_seconds, rw_pc, attempts, rw_calls, rw_raised,
               rw_slept, rw_outcomes, rw_result>>

fixVars == <<football_fixtures, fx_response, fx_run, fx_pc, fx_tasks, fx_return,
             fx_failed, fx_applied, fx_status, fx_upserts, fx_history>>

predVars == <<football_predictions, football_predictions_stats, fixture_ids, m_pc, m_i,
              successful_total, failed_ids, batch, b_pc, b_cur, b_taken, completed,
              p_fetch, p_result, up_pred, up_stats, successful_predictions,
              failed_predictions, faults>>

aiVars == <<match_predictions, ai_pc, ai_fixture, ai_response, ai_invokes, ai_runs,
            ai_rows_before, ai_log, ai_inserted, q_fixture, q_ok, q_rows, q_result>>

ufVars == <<fixtures, uf_doc, uf_store_calls, uf_store_raised>>

rateVars == <<slept, p_gap>>

schedVars == <<clock, sched_pc, sched_i, sched_fired, sched_since, sched_min_gap,
               sched_date, sched_dates, sched_failed>>

\* fixVars without the table
fixRest == <<fx_response, fx_run, fx_pc, fx_tasks, fx_return, fx_failed, fx_applied,
             fx_status, fx_upserts, fx_history>>

twoVars == <<ctx_doc, ctx_pc, ctx_record, ctx_clock, ctx_order>>

statVars == <<ts_team, ts_pc, ts_stats, ts_row>>

\* predVars without the two tables
predRest == <<fixture_ids, m_pc, m_i, successful_total, failed_ids, batch, b_pc, b_cur,
              b_taken, completed, p_fetch, p_result, up_pred, up_stats,
              successful_predictions, failed_predictions, faults>>

pairVars == <<pair_id, pair_data, pair_pc, pair_pred, pair_stats>>

\* ufVars without the table
ufRest == <<uf_doc, uf_store_calls, uf_store_raised>>

syncVars == <<ff_response, ff_pc, ff_status, ff_calls, ff_results, success_count,
              total_fixtures>>

(***************************************************************************)
(* Bounds of the model.                                                    *)
(***************************************************************************)
MaxTotal == 2          \* largest event count of one minute bucket
MaxGames == 8          \* largest games-played divisor
MaxMaxAttempts == 4    \* largest max_attempts the decorator is given
MaxDelay == 1          \* largest delay_seconds the decorator is given
NumInvocations == 2    \* invocations of one wrapped function
MaxFixtureId == 2      \* fixture ids are 1..MaxFixtureId
MaxResponse == 2       \* longest provider response list
MaxRuns == 2           \* calls of fetch_and_store_fixtures for the date
MaxPredIds == 6        \* most fixture ids main ingests predictions for
MaxDays == 1           \* days scheduled_task is followed after the day it starts on
MaxIterSeconds == 1    \* longest time one pass of the loop of scheduled_task takes
MaxFetchSeconds == 1   \* longest run of fetch_and_store_fixtures under scheduled_task
MaxAskRuns == 2        \* "Ask AI" invocations
MaxVenueGames == 2     \* most games a team has played at one venue
MaxFaults == 1         \* most provider failures and store rejections in one run of main
                       \* (one more in a run of at most MaxPredIds \div 2 fixture ids,
                       \* one in a run of more than one batch)

(***************************************************************************)
(* Optional values: Python's None is the empty set, a value v is {v}.      *)
(***************************************************************************)
None == {}
Some(v) == {v}
Get(o) == CHOOSE v \in o : TRUE
\* Python's `x or 0` for an optional integer
OrZero(o) == IF o = None THEN 0 ELSE Get(o)

(***************************************************************************)
(* calculate_interval_averages(minute_data, games_played)                  *)
(***************************************************************************)
first_half_intervals == <<"0-15", "16-30", "31-45">>
second_half_intervals == <<"46-60", "61-75", "76-90">>
Intervals == {"0-15", "16-30", "31-45", "46-60", "61-75", "76-90"}

\* a bucket of the provider document: missing from minute_data, or present
\* with a total that is null or an integer
Buckets == {[present |-> FALSE, total |-> None]}
           \cup {[present |-> TRUE, total |-> t] : t \in {None} \cup {Some(n) : n \in 0..MaxTotal}}

\* minute_data.get(interval, {}).get("total")
BucketTotal(md, interval) == IF md[interval].present THEN md[interval].total ELSE None

\* any(minute_data.get(interval, {}).get("total") is not None for interval in intervals)
HasDataMut(md, intervals) ==
    \E k \in 1..Len(intervals) : OrZero(BucketTotal(md, intervals[k])) # 0
HasData(md, intervals) ==
    \E k \in 1..Len(intervals) : BucketTotal(md, intervals[k]) # None

\* sum(minute_data.get(interval, {}).get("total") or 0 for interval in intervals)
SumTotals(md, intervals) ==
    OrZero(BucketTotal(md, intervals[1])) + OrZero(BucketTotal(md, intervals[2]))
        + OrZero(BucketTotal(md, intervals[3]))

\* round(n / g, 2), as the number of hundredths.  n / g is a float division and
\* round() rounds the float to the nearest hundredth, a tie going to the even
\* hundredth.  (Within the bounds a tie needs g = 8 or 16, where n / g is exact
\* in binary, so the float tie rule is the decimal one.)
Round2Mut(n, g) == (100 * n) \div g
Round2(n, g) ==
    LET num == 100 * n
        q == num \div g
        r == num % g
    IN  IF 2 * r < g THEN q
        ELSE IF 2 * r > g THEN q + 1
        ELSE IF q % 2 = 0 THEN q ELSE q + 1

\* the average of one half: lines 138-151
HalfAverage(md, intervals, g) ==
    IF HasData(md, intervals) THEN Some(Round2(SumTotals(md, intervals), g)) ELSE None

\* the whole function: the pair it returns and the divisions it performed
\* `if games_played == 0: return None, None`
ZeroGames(g) == g = 0

CalcFirstMut(md, g) == HalfAverage(md, first_half_intervals, IF g = 0 THEN 1 ELSE g)
CalcFirst(md, g) == IF ZeroGames(g) THEN None ELSE HalfAverage(md, first_half_intervals, g)
CalcSecond(md, g) == IF ZeroGames(g) THEN None ELSE HalfAverage(md, second_half_intervals, g)
CalcDivisions(md, g) ==
    IF ZeroGames(g) THEN 0
    ELSE (IF HasData(md, first_half_intervals) THEN 1 ELSE 0)
         + (IF HasData(md, second_half_intervals) THEN 1 ELSE 0)

AggInit ==
    /\ minute_data \in [Intervals -> Buckets]
    /\ games_played \in 0..MaxGames
    /\ agg_pc = "input"
    /\ first_half = None
    /\ second_half = None
    /\ divisions = 0

AggIdle ==
    /\ minute_data = [i \in Intervals |-> [present |-> FALSE, total |-> None]]
    /\ games_played = 0
    /\ agg_pc = "idle"
    /\ first_half = None
    /\ second_half = None
    /\ divisions = 0

calculate_interval_averages ==
    /\ agg_pc = "input"
    /\ first_half' = CalcFirst(minute_data, games_played)
    /\ second_half' = CalcSecond(minute_data, games_played)
    /\ divisions' = CalcDivisions(minute_data, games_played)
    /\ agg_pc' = "done"
    /\ UNCHANGED <<minute_data, games_played>>

(***************************************************************************)
(* process_team_stats(team_data) and the fields stats_record takes from it *)
(***************************************************************************)
StatKeys ==
    {"scored_home_first_half_average", "scored_home_second_half_average",
     "conceded_home_first_half_average", "conceded_home_second_half_average",
     "scored_away_first_half_average", "scored_away_second_half_average",
     "conceded_away_first_half_average", "conceded_away_second_half_average",
     "yellow_cards_first_half_average", "yellow_cards_second_half_average"}

\* stats = {}
EmptyDict == [k \in {} |-> None]
\* d.get(k)
DictGet(d, k) == IF k \in DOMAIN d THEN d[k] ELSE None

\* `if home_games > 0:` the four assignments of lines 169-175
home_venue_stats(t) ==
    ("scored_home_first_half_average" :> CalcFirst(t.goals_for, t.home_games))
    @@ ("scored_home_second_half_average" :> CalcSecond(t.goals_for, t.home_games))
    @@ ("conceded_home_first_half_average" :> CalcFirst(t.goals_against, t.home_games))
    @@ ("conceded_home_second_half_average" :> CalcSecond(t.goals_against, t.home_games))

\* `if away_games > 0:` the four assignments of lines 178-184
away_venue_stats(t) ==
    ("scored_away_first_half_average" :> CalcFirst(t.goals_for, t.away_games))
    @@ ("scored_away_second_half_average" :> CalcSecond(t.goals_for, t.away_games))
    @@ ("conceded_away_first_half_average" :> CalcFirst(t.goals_against, t.away_games))
    @@ ("conceded_away_second_half_average" :> CalcSecond(t.goals_against, t.away_games))

\* total_games = home_games + away_games
total_gamesMut(home, away) == home
total_games(home, away) == home + away

\* `if total_games > 0:` the two assignments of lines 190-192
card_stats(t) ==
    ("yellow_cards_first_half_average"
        :> CalcFirst(t.yellow_cards, total_games(t.home_games, t.away_games)))
    @@ ("yellow_cards_second_half_average"
        :> CalcSecond(t.yellow_cards, total_games(t.home_games, t.away_games)))

process_team_stats(t) ==
    (IF t.home_games > 0 THEN home_venue_stats(t) ELSE EmptyDict)
    @@ (IF t.away_games > 0 THEN away_venue_stats(t) ELSE EmptyDict)
    @@ (IF total_games(t.home_games, t.away_games) > 0 THEN card_stats(t) ELSE EmptyDict)

\* the ten `<team>_stats.get(...)` fields of stats_record, under the key of
\* process_team_stats each one reads
team_stats_fields(stats) == [k \in StatKeys |-> DictGet(stats, k)]

\* a minute table with a total for the first bucket of each half and the other
\* buckets missing
HalfTotals == {None} \cup {Some(n) : n \in 1..MaxTotal}
MinuteDataOf(a, b) ==
    [i \in Intervals |->
        IF i = "0-15" THEN [present |-> TRUE, total |-> a]
        ELSE IF i = "46-60" THEN [present |-> TRUE, total |-> b]
        ELSE [present |-> FALSE, total |-> None]]
StatsMinuteData == {MinuteDataOf(a, b) : a, b \in HalfTotals}

TeamData ==
    [home_games : 0..MaxVenueGames, away_games : 0..MaxVenueGames,
     goals_for : StatsMinuteData, goals_against : StatsMinuteData,
     yellow_cards : StatsMinuteData]

StatInit ==
    /\ ts_team \in TeamData
    /\ ts_pc = "input"
    /\ ts_stats = EmptyDict
    /\ ts_row = [k \in StatKeys |-> None]

StatIdle ==
    /\ ts_team = [home_games |-> 0, away_games |-> 0,
                  goals_for |-> MinuteDataOf(None, None),
                  goals_against |-> MinuteDataOf(None, None),
                  yellow_cards |-> MinuteDataOf(None, None)]
    /\ ts_pc = "off"
    /\ ts_stats = EmptyDict
    /\ ts_row = [k \in StatKeys |-> None]

\* home_stats = process_team_stats(pred['teams']['home'])
ProcessTeamStats ==
    /\ ts_pc = "input"
    /\ ts_stats' = process_team_stats(ts_team)
    /\ ts_pc' = "processed"
    /\ UNCHANGED <<ts_team, ts_row>>

\* stats_record = {...}
BuildStatsRecord ==
    /\ ts_pc = "processed"
    /\ ts_row' = team_stats_fields(ts_stats)
    /\ ts_pc' = "built"
    /\ UNCHANGED <<ts_team, ts_stats>>


(***************************************************************************)
(* retry_on_failure(max_attempts, delay_seconds): the wrapper              *)
(***************************************************************************)
Invocations == 1..NumInvocations

\* what one invocation of the wrapped func can do
FuncOutcomes == {"raise", "True", "False"}

\* `while attempts < max_attempts`
RetryContinue(a, m) == a < m
\* `if attempts == max_attempts` in the except branch
RetryExhaustedMut(a, m) == a >= m - 1
RetryExhausted(a, m) == a = m

\* `attempts` is a local of wrapper: the counter invocation i reads is its own
AttemptsOfMut(att, i) == CHOOSE a \in {att[j] : j \in Invocations} : \A j \in Invocations : att[j] <= a
AttemptsOf(att, i) == att[i]

\* time.sleep(delay_seconds): the same delay after every failed attempt
BackoffMut(delay, failed) == delay * failed
Backoff(delay, failed) == delay

RetryInit ==
    /\ max_attempts \in 0..MaxMaxAttempts
    /\ delay_seconds \in 0..MaxDelay
    /\ rw_pc = [i \in Invocations |-> "idle"]
    /\ attempts = [i \in Invocations |-> 0]
    /\ rw_calls = [i \in Invocations |-> 0]
    /\ rw_raised = [i \in Invocations |-> 0]
    /\ rw_slept = [i \in Invocations |-> 0]
    /\ rw_outcomes = [i \in Invocations |-> <<>>]
    /\ rw_result = [i \in Invocations |-> "none"]

RetryIdle ==
    /\ max_attempts = 0
    /\ delay_seconds = 0
    /\ rw_pc = [i \in Invocations |-> "off"]
    /\ attempts = [i \in Invocations |-> 0]
    /\ rw_calls = [i \in Invocations |-> 0]
    /\ rw_raised = [i \in Invocations |-> 0]
    /\ rw_slept = [i \in Invocations |-> 0]
    /\ rw_outcomes = [i \in Invocations |-> <<>>]
    /\ rw_result = [i \in Invocations |-> "none"]

\* wrapper(*args, **kwargs) is entered: attempts = 0
WrapperEnter(i) ==
    /\ rw_pc[i] = "idle"
    /\ attempts' = [attempts EXCEPT ![i] = 0]
    /\ rw_pc' = [rw_pc EXCEPT ![i] = "loop"]
    /\ UNCHANGED <<max_attempts, delay_seconds, rw_calls, rw_raised, rw_slept, rw_outcomes, rw_result>>

\* the loop test; falling out of the loop is the trailing `return False`
WrapperLoop(i) ==
    /\ rw_pc[i] = "loop"
    /\ IF RetryContinue(AttemptsOf(attempts, i), max_attempts)
       THEN /\ rw_pc' = [rw_pc EXCEPT ![i] = "call"]
            /\ UNCHANGED rw_result
       ELSE /\ rw_pc' = [rw_pc EXCEPT ![i] = "done"]
            /\ rw_result' = [rw_result EXCEPT ![i] = "False"]
    /\ UNCHANGED <<max_attempts, delay_seconds, attempts, rw_calls, rw_raised, rw_slept, rw_outcomes>>

\* try: return func(...)  /  except Exception: attempts += 1 ...
WrapperTry(i, outcome) ==
    /\ rw_pc[i] = "call"
    /\ rw_calls' = [rw_calls EXCEPT ![i] = @ + 1]
    /\ rw_outcomes' = [rw_outcomes EXCEPT ![i] = Append(@, outcome)]
    /\ IF outcome # "raise"
       THEN /\ rw_result' = [rw_result EXCEPT ![i] = outcome]
            /\ rw_pc' = [rw_pc EXCEPT ![i] = "done"]
            /\ UNCHANGED <<attempts, rw_raised>>
       ELSE /\ attempts' = [attempts EXCEPT ![i] = AttemptsOf(attempts, i) + 1]
            /\ rw_raised' = [rw_raised EXCEPT ![i] = @ + 1]
            /\ IF RetryExhausted(AttemptsOf(attempts, i) + 1, max_attempts)
               THEN /\ rw_result' = [rw_result EXCEPT ![i] = "False"]
                    /\ rw_pc' = [rw_pc EXCEPT ![i] = "done"]
               ELSE /\ rw_pc' = [rw_pc EXCEPT ![i] = "sleep"]
                    /\ UNCHANGED rw_result
    /\ UNCHANGED <<max_attempts, delay_seconds, rw_slept>>

\* the wrapper around any func
WrapperCall(i) == \E outcome \in FuncOutcomes : WrapperTry(i, outcome)

\* time.sleep(delay_seconds), then back to the loop test
WrapperSleep(i) ==
    /\ rw_pc[i] = "sleep"
    /\ rw_slept' = [rw_slept EXCEPT ![i] = @ + Backoff(delay_seconds, attempts[i])]
    /\ rw_pc' = [rw_pc EXCEPT ![i] = "loop"]
    /\ UNCHANGED <<max_attempts, delay_seconds, attempts, rw_calls, rw_raised, rw_outcomes, rw_result>>


(***************************************************************************)
(* The store: a table is a set of rows; upsert with on_conflict=fixture_id *)
(***************************************************************************)
FixtureIds == 1..MaxFixtureId
DataValues == {"a", "b"}

\* .upsert(record, on_conflict='fixture_id').execute(), once the store applies it
UpsertMut(table, record) == table \cup {record}
Upsert(table, record) ==
    {r \in table : r.fixture_id # record.fixture_id} \cup {record}

RowsOf(table, id) == {r \in table : r.fixture_id = id}
IdsOf(table) == {r.fixture_id : r \in table}

(***************************************************************************)
(* store_fixture_async(fixture, supabase_client)                           *)
(***************************************************************************)
\* A fixture document of the provider: complete ("ok"), lacking fixture.id
\* ("no_id"), or lacking another required field ("no_field": teams, league,
\* score, venue, date).
FixtureDocs ==
    {[kind |-> "ok", fixture_id |-> Some(i), data |-> Some(d)] : i \in FixtureIds, d \in DataValues}
    \cup {[kind |-> "no_field", fixture_id |-> Some(i), data |-> None] : i \in FixtureIds}
    \cup {[kind |-> "no_id", fixture_id |-> None, data |-> None]}

\* fixture_record = {...}: raises KeyError unless every required field is present
MappingRaises(doc) == doc.kind # "ok"
fixture_record(doc, now) ==
    [fixture_id |-> Get(doc.fixture_id), data |-> Get(doc.data), created_at |-> now]

\* the except branch: logging.error(f"... {fixture['fixture']['id']} ...") reads
\* the id again, and raises KeyError out of the handler when it is absent
HandlerRaises(doc) == doc.fixture_id = None

\* the first step of a task, up to its first suspension
FirstStep(doc) ==
    IF MappingRaises(doc)
    THEN (IF HandlerRaises(doc) THEN "raised" ELSE "False")
    ELSE "inflight"

Unresolved == {"inflight", "applied", "rejected"}

FixInit ==
    /\ football_fixtures = {}
    /\ fx_response \in UNION {[1..n -> FixtureDocs] : n \in 0..MaxResponse}
    /\ fx_run = 0
    /\ fx_pc = "idle"
    /\ fx_tasks = <<>>
    /\ fx_return = None
    /\ fx_failed = {}
    /\ fx_applied = {}
    /\ fx_status = "none"
    /\ fx_upserts = [i \in FixtureIds |-> <<>>]
    /\ fx_history = <<>>

FixIdle ==
    /\ football_fixtures = {}
    /\ fx_response = <<>>
    /\ fx_run = 0
    /\ fx_pc = "off"
    /\ fx_tasks = <<>>
    /\ fx_return = None
    /\ fx_failed = {}
    /\ fx_applied = {}
    /\ fx_status = "none"
    /\ fx_upserts = [i \in FixtureIds |-> <<>>]
    /\ fx_history = <<>>

\* the store applies the upsert of task k
ApplyFixtureUpsertMut(k) ==
    LET rec == fixture_record(fx_response[k], fx_run)
    IN  /\ football_fixtures' = {rec}
        /\ fx_upserts' = [fx_upserts EXCEPT ![rec.fixture_id] = Append(@, rec)]
        /\ fx_applied' = fx_applied \cup {k}
ApplyFixtureUpsert(k) ==
    LET rec == fixture_record(fx_response[k], fx_run)
    IN  /\ football_fixtures' = Upsert(football_fixtures, rec)
        /\ fx_upserts' = [fx_upserts EXCEPT ![rec.fixture_id] = Append(@, rec)]
        /\ fx_applied' = fx_applied \cup {k}


(***************************************************************************)
(* upsert_fixture(fixture), decorated @retry_on_failure(max_attempts=3,     *)
(* delay_seconds=1)                                                        *)
(***************************************************************************)
UPSERT_MAX_ATTEMPTS == 3
UPSERT_DELAY_SECONDS == 1

\* fixture_data = {...}: the row of table "fixtures"
fixture_data(doc) == [fixture_id |-> Get(doc.fixture_id), data |-> Get(doc.data)]

\* the body of upsert_fixture: what it does once called with doc, the store
\* accepting the upsert (store_ok) or raising.  Both failures end in an except
\* branch of the body that returns False: `except KeyError` for an absent field
\* (its print guards the read of the id), `except Exception` for the store.
\* Nothing is raised to the wrapper.
upsert_fixture_result(doc, store_ok) ==
    IF MappingRaises(doc) THEN "False"
    ELSE IF store_ok THEN "True" ELSE "False"

UfInit ==
    /\ max_attempts = UPSERT_MAX_ATTEMPTS
    /\ delay_seconds = UPSERT_DELAY_SECONDS
    /\ rw_pc = [i \in Invocations |-> "idle"]
    /\ attempts = [i \in Invocations |-> 0]
    /\ rw_calls = [i \in Invocations |-> 0]
    /\ rw_raised = [i \in Invocations |-> 0]
    /\ rw_slept = [i \in Invocations |-> 0]
    /\ rw_outcomes = [i \in Invocations |-> <<>>]
    /\ rw_result = [i \in Invocations |-> "none"]
    /\ fixtures = {}
    /\ uf_doc \in [Invocations -> FixtureDocs]
    /\ uf_store_calls = [i \in Invocations |-> 0]
    /\ uf_store_raised = [i \in Invocations |-> 0]

UfIdle ==
    /\ fixtures = {}
    /\ uf_doc = [i \in Invocations |-> [kind |-> "no_id", fixture_id |-> None, data |-> None]]
    /\ uf_store_calls = [i \in Invocations |-> 0]
    /\ uf_store_raised = [i \in Invocations |-> 0]

\* the wrapper calls the body: `return func(*args, **kwargs)`
UpsertFixtureCall(i) ==
    \E store_ok \in BOOLEAN :
        /\ WrapperTry(i, upsert_fixture_result(uf_doc[i], store_ok))
        /\ IF MappingRaises(uf_doc[i])
           THEN UNCHANGED <<fixtures, uf_store_calls, uf_store_raised>>
           ELSE /\ uf_store_calls' = [uf_store_calls EXCEPT ![i] = @ + 1]
                /\ IF store_ok
                   THEN /\ fixtures' = Upsert(fixtures, fixture_data(uf_doc[i]))
                        /\ UNCHANGED uf_store_raised
                   ELSE /\ uf_store_raised' = [uf_store_raised EXCEPT ![i] = @ + 1]
                        /\ UNCHANGED fixtures
        /\ UNCHANGED uf_doc

(***************************************************************************)
(* fetch_and_store_fixtures(date), run by asyncio.run                      *)
(***************************************************************************)
\* the call starts: session.get(...) is awaited
FetchFixturesCall ==
    /\ fx_pc = "idle"
    /\ fx_run < MaxRuns
    /\ fx_run' = fx_run + 1
    /\ fx_pc' = "request"
    /\ fx_tasks' = <<>>
    /\ fx_return' = None
    /\ fx_failed' = {}
    /\ fx_applied' = {}
    /\ fx_status' = "none"
    /\ UNCHANGED <<football_fixtures, fx_response, fx_upserts, fx_history>>

\* response.status != 200 (or the body fails to parse): raise, caught by the
\* outer except, return 0
FetchFixturesErrorMut ==
    /\ fx_pc = "request"
    /\ fx_tasks' = [k \in 1..Len(fx_response) |-> "created"]
    /\ fx_pc' = "gather"
    /\ fx_status' = "error"
    /\ UNCHANGED <<football_fixtures, fx_response, fx_run, fx_return, fx_failed,
                   fx_applied, fx_upserts, fx_history>>
FetchFixturesError ==
    /\ fx_pc = "request"
    /\ fx_return' = Some(0)
    /\ fx_pc' = "cleanup"
    /\ fx_status' = "error"
    /\ UNCHANGED <<football_fixtures, fx_response, fx_run, fx_tasks, fx_failed,
                   fx_applied, fx_upserts, fx_history>>

\* status 200: one coroutine per document, handed to asyncio.gather
FetchFixturesGather ==
    /\ fx_pc = "request"
    /\ fx_tasks' = [k \in 1..Len(fx_response) |-> "created"]
    /\ fx_pc' = "gather"
    /\ fx_status' = "ok"
    /\ UNCHANGED <<football_fixtures, fx_response, fx_run, fx_return, fx_failed,
                   fx_applied, fx_upserts, fx_history>>

\* the event loop runs the tasks' first steps in creation order: the mapping,
\* then either the upsert request goes out or the except branch runs
StoreFixtureStart(k) ==
    /\ fx_pc = "gather"
    /\ fx_tasks[k] = "created"
    /\ \A j \in 1..(k - 1) : fx_tasks[j] # "created"
    /\ fx_tasks' = [fx_tasks EXCEPT ![k] = FirstStep(fx_response[k])]
    /\ fx_failed' = IF MappingRaises(fx_response[k]) THEN fx_failed \cup {k} ELSE fx_failed
    /\ UNCHANGED <<football_fixtures, fx_response, fx_run, fx_pc, fx_return,
                   fx_applied, fx_upserts, fx_history, fx_status>>

\* the store handles the request of task k: it applies the upsert ...
StoreFixtureApplied(k) ==
    /\ fx_pc = "gather"
    /\ fx_tasks[k] = "inflight"
    /\ ApplyFixtureUpsert(k)
    /\ fx_tasks' = [fx_tasks EXCEPT ![k] = "applied"]
    /\ UNCHANGED <<fx_response, fx_run, fx_pc, fx_return, fx_failed, fx_history, fx_status>>

\* ... or rejects it (constraint violation, unavailability)
StoreFixtureRejected(k) ==
    /\ fx_pc = "gather"
    /\ fx_tasks[k] = "inflight"
    /\ fx_tasks' = [fx_tasks EXCEPT ![k] = "rejected"]
    /\ fx_failed' = fx_failed \cup {k}
    /\ UNCHANGED <<football_fixtures, fx_response, fx_run, fx_pc, fx_return,
                   fx_applied, fx_upserts, fx_history, fx_status>>

\* the task resumes after the awaited execute(): return True, or the except
\* branch (the id is present here, the mapping went through): return False
StoreFixtureResume(k) ==
    /\ fx_pc = "gather"
    /\ fx_tasks[k] \in {"applied", "rejected"}
    /\ fx_tasks' = [fx_tasks EXCEPT ![k] = IF fx_tasks[k] = "applied" THEN "True" ELSE "False"]
    /\ UNCHANGED <<football_fixtures, fx_response, fx_run, fx_pc, fx_return, fx_failed,
                   fx_applied, fx_upserts, fx_history, fx_status>>

\* sum(1 for result in results if result)
stored_count(tasks) == Cardinality({k \in 1..Len(tasks) : tasks[k] = "True"})

\* every task returned: gather gives the results, the count is returned
GatherDone ==
    /\ fx_pc = "gather"
    /\ \A k \in 1..Len(fx_tasks) : fx_tasks[k] \in {"True", "False"}
    /\ fx_return' = Some(stored_count(fx_tasks))
    /\ fx_pc' = "cleanup"
    /\ UNCHANGED <<football_fixtures, fx_response, fx_run, fx_tasks, fx_failed,
                   fx_applied, fx_upserts, fx_history, fx_status>>

\* a task raised: gather (return_exceptions=False) propagates it at once, the
\* other tasks keep running; the outer except logs and returns 0.  The callback
\* that wakes the caller runs after the first steps of all tasks.
GatherRaise ==
    /\ fx_pc = "gather"
    /\ \A k \in 1..Len(fx_tasks) : fx_tasks[k] # "created"
    /\ \E k \in 1..Len(fx_tasks) : fx_tasks[k] = "raised"
    /\ fx_return' = Some(0)
    /\ fx_pc' = "cleanup"
    /\ UNCHANGED <<football_fixtures, fx_response, fx_run, fx_tasks, fx_failed,
                   fx_applied, fx_upserts, fx_history, fx_status>>

\* asyncio.run cancels the tasks still pending when the coroutine has returned.
\* A request already handed to the store by then is applied by it or not.
CancelTask(k) ==
    /\ fx_pc = "cleanup"
    /\ fx_tasks[k] \in Unresolved
    /\ fx_tasks' = [fx_tasks EXCEPT ![k] = "cancelled"]
    /\ \/ /\ fx_tasks[k] = "inflight"
          /\ ApplyFixtureUpsert(k)
       \/ UNCHANGED <<football_fixtures, fx_upserts, fx_applied>>
    /\ UNCHANGED <<fx_response, fx_run, fx_pc, fx_return, fx_failed, fx_history, fx_status>>

\* asyncio.run returns the value to the caller
FetchFixturesReturn ==
    /\ fx_pc = "cleanup"
    /\ \A k \in 1..Len(fx_tasks) : fx_tasks[k] \notin Unresolved
    /\ fx_history' = Append(fx_history,
            [count |-> Get(fx_return),
             status |-> fx_status,
             failed |-> Cardinality(fx_failed),
             applied |-> Cardinality(fx_applied),
             ids |-> IdsOf(football_fixtures),
             rows |-> Cardinality(football_fixtures)])
    /\ fx_pc' = "idle"
    /\ UNCHANGED <<football_fixtures, fx_response, fx_run, fx_tasks, fx_return, fx_failed,
                   fx_applied, fx_upserts, fx_status>>


(***************************************************************************)
(* fetch_prediction_async, store_prediction_async, fetch_predictions_batch *)
(* and the batch loop of main                                              *)
(***************************************************************************)
\* BATCH_SIZE = 5 in main
BATCH_SIZE == 5
\* time.sleep(1) at the end of each pass of the batch loop
BATCH_DELAY_SECONDS == 1
\* the seconds main has slept since its last request, after that sleep
SleptAfterMut(seconds) == seconds
SleptAfter(seconds) == seconds + BATCH_DELAY_SECONDS

PredIds == 1..MaxPredIds

\* What fetch_prediction_async returns beside the id:
\*   "none"     None: the request raised, or the status was not 200
\*   "empty"    a document whose 'response' is missing or an empty list
\*   "no_field" a document whose response[0] lacks a field the records need
\*   "ok"       a complete document
PredictionResults == {"none", "empty", "no_field", "ok"}

\* `result and result.get('response')`
HasResponse(result) == result \notin {"none", "empty"}

\* the try block of store_prediction_async up to the gather: building the two
\* records raises when a field is absent
RecordsRaise(result) == result = "no_field"

prediction_record(id) == [fixture_id |-> id, data |-> "prediction"]
stats_record(id) == [fixture_id |-> id, data |-> "stats"]

\* fixture_ids[i:i + BATCH_SIZE]
BatchSliceMut(ids, i) == SubSeq(ids, i + 1, Len(ids))
BatchSlice(ids, i) ==
    SubSeq(ids, i + 1, IF i + BATCH_SIZE < Len(ids) THEN i + BATCH_SIZE ELSE Len(ids))

\* the bookkeeping of the as_completed loop for one consumed task
SuccessAfterMut(count, success) == count + 1
SuccessAfter(count, success) == IF success THEN count + 1 ELSE count
FailedAfterMut(failed, id, success) == IF success THEN failed ELSE <<id>>
FailedAfter(failed, id, success) == IF success THEN failed ELSE Append(failed, id)

SeqSet(q) == {q[k] : k \in 1..Len(q)}

\* the provider failures and store rejections explored in one run of main
FaultBudget ==
    IF Len(fixture_ids) <= MaxPredIds \div 2 THEN MaxFaults + 1
    ELSE IF Len(fixture_ids) <= BATCH_SIZE THEN MaxFaults ELSE 1

PredInit ==
    /\ football_predictions = {}
    /\ football_predictions_stats = {}
    /\ fixture_ids \in {[k \in 1..n |-> k] : n \in 0..MaxPredIds}
    /\ m_pc = "start"
    /\ m_i = 0
    /\ successful_total = 0
    /\ failed_ids = <<>>
    /\ batch = <<>>
    /\ b_pc = "off"
    /\ b_cur = 0
    /\ b_taken = 0
    /\ completed = <<>>
    /\ p_fetch = [id \in PredIds |-> "none"]
    /\ p_result = [id \in PredIds |-> "none"]
    /\ up_pred = [id \in PredIds |-> "none"]
    /\ up_stats = [id \in PredIds |-> "none"]
    /\ successful_predictions = 0
    /\ failed_predictions = <<>>
    /\ faults = 0
    /\ slept = 0
    /\ p_gap = [id \in PredIds |-> -1]

PredIdle ==
    /\ football_predictions = {}
    /\ football_predictions_stats = {}
    /\ fixture_ids = <<>>
    /\ m_pc = "off"
    /\ m_i = 0
    /\ successful_total = 0
    /\ failed_ids = <<>>
    /\ batch = <<>>
    /\ b_pc = "off"
    /\ b_cur = 0
    /\ b_taken = 0
    /\ completed = <<>>
    /\ p_fetch = [id \in PredIds |-> "none"]
    /\ p_result = [id \in PredIds |-> "none"]
    /\ up_pred = [id \in PredIds |-> "none"]
    /\ up_stats = [id \in PredIds |-> "none"]
    /\ successful_predictions = 0
    /\ failed_predictions = <<>>
    /\ faults = 0
    /\ slept = 0
    /\ p_gap = [id \in PredIds |-> -1]

\* `if not fixture_ids: st.warning(...); return`, else the loop is entered
MainStart ==
    /\ m_pc = "start"
    /\ m_pc' = IF fixture_ids = <<>> THEN "done" ELSE "loop"
    /\ UNCHANGED <<football_predictions, football_predictions_stats, fixture_ids, m_i,
                   successful_total, failed_ids, batch, b_pc, b_cur, b_taken, completed,
                   p_fetch, p_result, up_pred, up_stats, successful_predictions,
                   failed_predictions, faults>>

\* batch = fixture_ids[i:i + BATCH_SIZE]; asyncio.run(fetch_predictions_batch(batch)):
\* one fetch_prediction_async per id; as_completed schedules them all and the
\* loop sends their requests before anything else runs
BatchCall ==
    /\ m_pc = "loop"
    /\ LET b == BatchSlice(fixture_ids, m_i)
       IN  /\ batch' = b
           /\ p_fetch' = [id \in PredIds |-> IF id \in SeqSet(b) THEN "inflight" ELSE p_fetch[id]]
    /\ m_pc' = "batch"
    /\ b_pc' = "await"
    /\ b_cur' = 0
    /\ b_taken' = 0
    /\ completed' = <<>>
    /\ successful_predictions' = 0
    /\ failed_predictions' = <<>>
    /\ LET b == BatchSlice(fixture_ids, m_i)
       IN  p_gap' = [id \in PredIds |->
                       IF \E j \in 1..Len(b) : b[j] = id
                       THEN (IF b[1] = id THEN slept ELSE 0)
                       ELSE p_gap[id]]
    /\ slept' = 0
    /\ UNCHANGED <<football_predictions, football_predictions_stats, fixture_ids, m_i,
                   successful_total, failed_ids, p_result, up_pred, up_stats, faults>>

\* fetch_prediction_async(session, fixture_id, api_key) resolves
FetchPredictionResolve(id) ==
    /\ m_pc = "batch"
    /\ p_fetch[id] = "inflight"
    /\ \E r \in PredictionResults :
        /\ p_result' = [p_result EXCEPT ![id] = r]
        /\ IF r = "ok" THEN UNCHANGED faults
           ELSE faults < FaultBudget /\ faults' = faults + 1
    /\ p_fetch' = [p_fetch EXCEPT ![id] = "resolved"]
    /\ completed' = Append(completed, id)
    /\ UNCHANGED <<football_predictions, football_predictions_stats, fixture_ids, m_pc, m_i,
                   successful_total, failed_ids, batch, b_pc, b_cur, b_taken,
                   up_pred, up_stats, successful_predictions, failed_predictions>>

\* `fixture_id, result = await completed_task`, the next in completion order.
\* No usable response: the id is failed.  Otherwise store_prediction_async runs
\* up to its first suspension: the records are built (a missing field raises,
\* the except returns False) and the two upserts go out under asyncio.gather.
BatchTake ==
    /\ m_pc = "batch"
    /\ b_pc = "await"
    /\ b_taken < Len(completed)
    /\ LET id == completed[b_taken + 1]
       IN  /\ b_taken' = b_taken + 1
           /\ IF HasResponse(p_result[id]) /\ ~RecordsRaise(p_result[id])
              THEN /\ b_pc' = "storing"
                   /\ b_cur' = id
                   /\ up_pred' = [up_pred EXCEPT ![id] = "inflight"]
                   /\ up_stats' = [up_stats EXCEPT ![id] = "inflight"]
                   /\ UNCHANGED <<successful_predictions, failed_predictions>>
              ELSE /\ successful_predictions' = SuccessAfter(successful_predictions, FALSE)
                   /\ failed_predictions' = FailedAfter(failed_predictions, id, FALSE)
                   /\ UNCHANGED <<b_pc, b_cur, up_pred, up_stats>>
    /\ UNCHANGED <<football_predictions, football_predictions_stats, fixture_ids, m_pc, m_i,
                   successful_total, failed_ids, batch, completed, p_fetch, p_result, faults>>

\* the store handles the football_predictions upsert of id: applied or rejected
PredUpsertApplied(id) ==
    /\ m_pc = "batch"
    /\ up_pred[id] = "inflight"
    /\ football_predictions' = Upsert(football_predictions, prediction_record(id))
    /\ up_pred' = [up_pred EXCEPT ![id] = "applied"]
    /\ UNCHANGED <<football_predictions_stats, fixture_ids, m_pc, m_i,
                   successful_total, failed_ids, batch, b_pc, b_cur, b_taken, completed,
                   p_fetch, p_result, up_stats, successful_predictions, failed_predictions, faults>>

PredUpsertRejected(id) ==
    /\ m_pc = "batch"
    /\ up_pred[id] = "inflight"
    /\ faults < FaultBudget
    /\ faults' = faults + 1
    /\ up_pred' = [up_pred EXCEPT ![id] = "rejected"]
    /\ UNCHANGED <<football_predictions, football_predictions_stats, fixture_ids, m_pc, m_i,
                   successful_total, failed_ids, batch, b_pc, b_cur, b_taken, completed,
                   p_fetch, p_result, up_stats, successful_predictions, failed_predictions>>

\* the same for the football_predictions_stats upsert of id
StatsUpsertApplied(id) ==
    /\ m_pc = "batch"
    /\ up_stats[id] = "inflight"
    /\ football_predictions_stats' = Upsert(football_predictions_stats, stats_record(id))
    /\ up_stats' = [up_stats EXCEPT ![id] = "applied"]
    /\ UNCHANGED <<football_predictions, fixture_ids, m_pc, m_i,
                   successful_total, failed_ids, batch, b_pc, b_cur, b_taken, completed,
                   p_fetch, p_result, up_pred, successful_predictions, failed_predictions, faults>>

StatsUpsertRejected(id) ==
    /\ m_pc = "batch"
    /\ up_stats[id] = "inflight"
    /\ faults < FaultBudget
    /\ faults' = faults + 1
    /\ up_stats' = [up_stats EXCEPT ![id] = "rejected"]
    /\ UNCHANGED <<football_predictions, football_predictions_stats, fixture_ids, m_pc, m_i,
                   successful_total, failed_ids, batch, b_pc, b_cur, b_taken, completed,
                   p_fetch, p_result, up_pred, successful_predictions, failed_predictions>>

\* both upserts went through: gather returns, store_prediction_async returns
\* True and the loop counts the id
StorePredictionTrue ==
    /\ m_pc = "batch"
    /\ b_pc = "storing"
    /\ up_pred[b_cur] = "applied"
    /\ up_stats[b_cur] = "applied"
    /\ successful_predictions' = SuccessAfter(successful_predictions, TRUE)
    /\ failed_predictions' = FailedAfter(failed_predictions, b_cur, TRUE)
    /\ b_pc' = "await"
    /\ UNCHANGED <<football_predictions, football_predictions_stats, fixture_ids, m_pc, m_i,
                   successful_total, failed_ids, batch, b_cur, b_taken, completed,
                   p_fetch, p_result, up_pred, up_stats, faults>>

\* one upsert was rejected: gather raises at once (the other upsert is left
\* running), the except returns False and the loop lists the id as failed
StorePredictionFalse ==
    /\ m_pc = "batch"
    /\ b_pc = "storing"
    /\ (up_pred[b_cur] = "rejected" \/ up_stats[b_cur] = "rejected")
    /\ successful_predictions' = SuccessAfter(successful_predictions, FALSE)
    /\ failed_predictions' = FailedAfter(failed_predictions, b_cur, FALSE)
    /\ b_pc' = "await"
    /\ UNCHANGED <<football_predictions, football_predictions_stats, fixture_ids, m_pc, m_i,
                   successful_total, failed_ids, batch, b_cur, b_taken, completed,
                   p_fetch, p_result, up_pred, up_stats, faults>>

\* the as_completed loop is exhausted: return successful_predictions, failed_predictions
BatchReturn ==
    /\ m_pc = "batch"
    /\ b_pc = "await"
    /\ b_taken = Len(batch)
    /\ b_pc' = "returned"
    /\ UNCHANGED <<football_predictions, football_predictions_stats, fixture_ids, m_pc, m_i,
                   successful_total, failed_ids, batch, b_cur, b_taken, completed,
                   p_fetch, p_result, up_pred, up_stats, successful_predictions,
                   failed_predictions, faults>>

\* asyncio.run cancels an upsert left running by a gather that raised; the
\* request already handed to the store is applied by it or not
CancelPredUpsert(id) ==
    /\ m_pc = "batch"
    /\ b_pc = "returned"
    /\ up_pred[id] = "inflight"
    /\ up_pred' = [up_pred EXCEPT ![id] = "cancelled"]
    /\ \/ football_predictions' = Upsert(football_predictions, prediction_record(id))
       \/ UNCHANGED football_predictions
    /\ UNCHANGED <<football_predictions_stats, fixture_ids, m_pc, m_i,
                   successful_total, failed_ids, batch, b_pc, b_cur, b_taken, completed,
                   p_fetch, p_result, up_stats, successful_predictions, failed_predictions, faults>>

CancelStatsUpsert(id) ==
    /\ m_pc = "batch"
    /\ b_pc = "returned"
    /\ up_stats[id] = "inflight"
    /\ up_stats' = [up_stats EXCEPT ![id] = "cancelled"]
    /\ \/ football_predictions_stats' = Upsert(football_predictions_stats, stats_record(id))
       \/ UNCHANGED football_predictions_stats
    /\ UNCHANGED <<football_predictions, fixture_ids, m_pc, m_i,
                   successful_total, failed_ids, batch, b_pc, b_cur, b_taken, completed,
                   p_fetch, p_result, up_pred, successful_predictions, failed_predictions, faults>>

\* asyncio.run returns: successful_total += successful; failed_ids.extend(failed)
MainAfterBatch ==
    /\ m_pc = "batch"
    /\ b_pc = "returned"
    /\ \A id \in PredIds : up_pred[id] # "inflight" /\ up_stats[id] # "inflight"
    /\ successful_total' = successful_total + successful_predictions
    /\ failed_ids' = failed_ids \o failed_predictions
    /\ m_pc' = "sleep"
    /\ UNCHANGED <<football_predictions, football_predictions_stats, fixture_ids, m_i,
                   batch, b_pc, b_cur, b_taken, completed, p_fetch, p_result, up_pred,
                   up_stats, successful_predictions, failed_predictions, faults>>

\* time.sleep(1), then the next i of range(0, len(fixture_ids), BATCH_SIZE)
MainSleep ==
    /\ m_pc = "sleep"
    /\ slept' = SleptAfter(slept)
    /\ UNCHANGED p_gap
    /\ m_i' = m_i + BATCH_SIZE
    /\ m_pc' = IF m_i + BATCH_SIZE < Len(fixture_ids) THEN "loop" ELSE "done"
    /\ UNCHANGED <<football_predictions, football_predictions_stats, fixture_ids,
                   successful_total, failed_ids, batch, b_pc, b_cur, b_taken, completed,
                   p_fetch, p_result, up_pred, up_stats, successful_predictions,
                   failed_predictions, faults>>


(***************************************************************************)
(* The "Ask AI" handler of main, insert_match_predictions, get_ai_prediction *)
(***************************************************************************)
\* What llm.invoke gives:
\*   "error"      the call raises
\*   "unparsable" content that json.loads rejects
\*   "no_group"   JSON lacking one of predictions, match_predictions,
\*                combo_predictions, reasoning (or not an object at all)
\*   "no_field"   JSON with the four groups, one of them lacking a field
\*   "complete"   JSON with every group and field
ServiceResponses == {"error", "unparsable", "no_group", "no_field", "complete"}

\* json.loads(model_response.content) raises
ParseRaises(r) == r = "unparsable"

\* insert_match_predictions: the four groups are read and the whole row is built
\* before .insert() is called; an absent group or field raises on the way
RowRaisesMut(r) == r = "no_group"
RowRaises(r) == r \in {"no_group", "no_field"}

match_prediction_row(fixture, run) == [fixture_id |-> fixture, run |-> run]

\* .insert(row).execute(), once the store applies it: a new row with a new id
StoredRow(table, row) ==
    [id |-> Cardinality(table) + 1, fixture_id |-> row.fixture_id, run |-> row.run]
InsertMut(table, row) ==
    {r \in table : r.fixture_id # row.fixture_id} \cup {StoredRow(table, row)}
Insert(table, row) == table \cup {StoredRow(table, row)}

\* get_ai_prediction: len(result.data) > 0, or False when the query raises
ai_prediction_exists(ok, rows) == ok /\ rows > 0

\* one finished invocation of the handler
\*   end      "no_data": the warning; "raised": an exception left main;
\*            "shown": st.success("AI Response generated")
\*   insert   "not_called" | "row_failed" | "store_failed" | "inserted"
\*   returned what insert_match_predictions returned ("none" when not called)
AiEntry(end, insert, returned) ==
    [fixture |-> ai_fixture, end |-> end, response |-> ai_response, insert |-> insert,
     returned |-> returned, invokes |-> ai_invokes, before |-> ai_rows_before]

AiInit ==
    /\ match_predictions = {}
    /\ ai_pc = "idle"
    /\ ai_fixture = 0
    /\ ai_response = "none"
    /\ ai_invokes = 0
    /\ ai_runs = 0
    /\ ai_rows_before = {}
    /\ ai_log = <<>>
    /\ ai_inserted = <<>>
    /\ q_fixture = 0
    /\ q_ok = FALSE
    /\ q_rows = 0
    /\ q_result = None

AiIdle ==
    /\ match_predictions = {}
    /\ ai_pc = "off"
    /\ ai_fixture = 0
    /\ ai_response = "none"
    /\ ai_invokes = 0
    /\ ai_runs = 0
    /\ ai_rows_before = {}
    /\ ai_log = <<>>
    /\ ai_inserted = <<>>
    /\ q_fixture = 0
    /\ q_ok = FALSE
    /\ q_rows = 0
    /\ q_result = None

\* the button of a fixture is pressed: get_teams_names and get_fixture_predictions
\* (both return None values when their query fails or finds nothing).  Without
\* prediction and stats rows: the warning.  With them but without team names:
\* teams_names['home_team_name'] raises out of main.  Otherwise the prompt is
\* built and llm.invoke is called.
AskAI(fixture) ==
    /\ ai_pc = "idle"
    /\ ai_runs < MaxAskRuns
    /\ ai_runs' = ai_runs + 1
    /\ ai_fixture' = fixture
    /\ ai_response' = "none"
    /\ ai_invokes' = 0
    /\ ai_rows_before' = match_predictions
    /\ \E has_data \in BOOLEAN, has_names \in BOOLEAN :
        IF has_data /\ has_names
        THEN /\ ai_pc' = "invoke"
             /\ UNCHANGED ai_log
        ELSE /\ ai_pc' = "idle"
             /\ ai_log' = Append(ai_log,
                    [fixture |-> fixture, end |-> IF has_data THEN "raised" ELSE "no_data",
                     response |-> "none", insert |-> "not_called", returned |-> "none",
                     invokes |-> 0, before |-> match_predictions])
    /\ UNCHANGED <<match_predictions, ai_inserted, q_fixture, q_ok, q_rows, q_result>>

\* model_response = llm.invoke(complete_prompt)
Invoke ==
    /\ ai_pc = "invoke"
    /\ ai_invokes' = ai_invokes + 1
    /\ \E r \in ServiceResponses :
        /\ ai_response' = r
        /\ IF r = "error"
           THEN /\ ai_pc' = "idle"
                /\ ai_log' = Append(ai_log,
                       [fixture |-> ai_fixture, end |-> "raised", response |-> r,
                        insert |-> "not_called", returned |-> "none",
                        invokes |-> ai_invokes + 1, before |-> ai_rows_before])
           ELSE /\ ai_pc' = "parse"
                /\ UNCHANGED ai_log
    /\ UNCHANGED <<match_predictions, ai_fixture, ai_runs, ai_rows_before, ai_inserted,
                   q_fixture, q_ok, q_rows, q_result>>

\* json.loads raises out of main; or insert_match_predictions is called and
\* fails to build the row (caught, logged, returns None, the success message is
\* shown); or the row goes to the store
ParseAndBuild ==
    /\ ai_pc = "parse"
    /\ IF ParseRaises(ai_response)
       THEN /\ ai_pc' = "idle"
            /\ ai_log' = Append(ai_log, AiEntry("raised", "not_called", "none"))
       ELSE IF RowRaises(ai_response)
       THEN /\ ai_pc' = "idle"
            /\ ai_log' = Append(ai_log, AiEntry("shown", "row_failed", "None"))
       ELSE /\ ai_pc' = "insert"
            /\ UNCHANGED ai_log
    /\ UNCHANGED <<match_predictions, ai_fixture, ai_response, ai_invokes, ai_runs,
                   ai_rows_before, ai_inserted, q_fixture, q_ok, q_rows, q_result>>

\* the store applies the insert: the function logs and falls off its end
\* (returns None); main shows the success message
InsertApplied ==
    /\ ai_pc = "insert"
    /\ LET row == match_prediction_row(ai_fixture, ai_runs)
       IN  /\ match_predictions' = Insert(match_predictions, row)
           /\ ai_inserted' = Append(ai_inserted, StoredRow(match_predictions, row))
    /\ ai_log' = Append(ai_log, AiEntry("shown", "inserted", "None"))
    /\ ai_pc' = "idle"
    /\ UNCHANGED <<ai_fixture, ai_response, ai_invokes, ai_runs, ai_rows_before,
                   q_fixture, q_ok, q_rows, q_result>>

\* the store rejects the insert: execute() raises, the except logs, the function
\* falls off its end (returns None); main shows the success message
InsertRejected ==
    /\ ai_pc = "insert"
    /\ ai_log' = Append(ai_log, AiEntry("shown", "store_failed", "None"))
    /\ ai_pc' = "idle"
    /\ UNCHANGED <<match_predictions, ai_fixture, ai_response, ai_invokes, ai_runs,
                   ai_rows_before, ai_inserted, q_fixture, q_ok, q_rows, q_result>>

\* get_ai_prediction(fixture_id): one select, answered by the store or raising
get_ai_prediction(fixture) ==
    /\ ai_pc = "idle"
    /\ \E ok \in BOOLEAN :
        LET rows == Cardinality(RowsOf(match_predictions, fixture))
        IN  /\ q_fixture' = fixture
            /\ q_ok' = ok
            /\ q_rows' = rows
            /\ q_result' = Some(ai_prediction_exists(ok, rows))
    /\ UNCHANGED <<match_predictions, ai_pc, ai_fixture, ai_response, ai_invokes, ai_runs,
                   ai_rows_before, ai_log, ai_inserted>>


(***************************************************************************)
(* scheduled_task(): the polling loop.  Time is in whole seconds.           *)
(***************************************************************************)
SECONDS_PER_DAY == 86400
\* `if now.hour == 0 and now.minute == 1`
TRIGGER_HOUR == 0
TRIGGER_MINUTE == 1
\* time.sleep(60) in both branches
CHECK_SLEEP == 60
\* `for i in range(3)` and its time.sleep(5)
DAYS_FETCHED == 3
FIXTURE_DELAY == 5

\* datetime.now(pytz.UTC): .hour, .minute and .date() of a clock reading
HourOf(t) == (t % SECONDS_PER_DAY) \div 3600
MinuteOf(t) == (t % 3600) \div 60
DayOf(t) == t \div SECONDS_PER_DAY

IsTriggerTime(t) == HourOf(t) = TRIGGER_HOUR /\ MinuteOf(t) = TRIGGER_MINUTE

\* target_date = current_date + timedelta(days=i)
target_dateMut(current_date, i) == current_date
target_date(current_date, i) == current_date + i

\* the clock after time.sleep(60) of a pass of the loop that took d seconds
AfterSleepMut(t, d) == t + d
AfterSleep(t, d) == t + CHECK_SLEEP + d

\* the last clock reading the model follows the loop to
Horizon == MaxDays * SECONDS_PER_DAY + 3 * CHECK_SLEEP

\* seconds since the last request after `d` more seconds, counted up to FIXTURE_DELAY
SinceAfter(since, d) ==
    IF since = -1 THEN -1
    ELSE IF since + d > FIXTURE_DELAY THEN FIXTURE_DELAY ELSE since + d

\* the task starts some time in the first minute after a midnight
SchedInit ==
    /\ clock \in 0..(CHECK_SLEEP - 1)
    /\ sched_pc = "check"
    /\ sched_i = 0
    /\ sched_fired = {}
    /\ sched_since = -1
    /\ sched_min_gap = FIXTURE_DELAY
    /\ sched_date = -1
    /\ sched_dates = <<>>
    /\ sched_failed = FALSE

SchedIdle ==
    /\ clock = 0
    /\ sched_pc = "off"
    /\ sched_i = 0
    /\ sched_fired = {}
    /\ sched_since = -1
    /\ sched_min_gap = FIXTURE_DELAY
    /\ sched_date = -1
    /\ sched_dates = <<>>
    /\ sched_failed = FALSE

\* now = datetime.now(pytz.UTC) and the test of the hour and the minute
SchedCheck ==
    /\ sched_pc = "check"
    /\ clock <= Horizon
    /\ IF IsTriggerTime(clock)
       THEN /\ sched_pc' = "fetch"
            /\ sched_i' = 0
            /\ sched_fired' = sched_fired \cup {DayOf(clock)}
            /\ sched_date' = DayOf(clock)
            /\ sched_dates' = <<>>
            /\ sched_failed' = FALSE
       ELSE /\ sched_pc' = "sleep"
            /\ UNCHANGED <<sched_i, sched_fired, sched_date, sched_dates, sched_failed>>
    /\ UNCHANGED <<clock, sched_since, sched_min_gap>>

\* asyncio.run(fetch_and_store_fixtures(target_date)): the provider request
\* goes out, the call returns some seconds later (it returns 0 on any failure
\* and raises nothing)
SchedFetch ==
    /\ sched_pc = "fetch"
    /\ sched_i < DAYS_FETCHED
    /\ sched_min_gap' = IF sched_since # -1 /\ sched_since < sched_min_gap
                        THEN sched_since ELSE sched_min_gap
    /\ \E d \in 0..MaxFetchSeconds :
        /\ clock' = clock + d
        /\ sched_since' = SinceAfter(0, d)
    /\ sched_dates' = Append(sched_dates, target_date(sched_date, sched_i))
    /\ \E ok \in BOOLEAN : sched_failed' = (sched_failed \/ ~ok)
    /\ sched_pc' = "pause"
    /\ UNCHANGED <<sched_i, sched_fired, sched_date>>

\* time.sleep(5), then the next i
SchedPause ==
    /\ sched_pc = "pause"
    /\ clock' = clock + FIXTURE_DELAY
    /\ sched_since' = SinceAfter(sched_since, FIXTURE_DELAY)
    /\ sched_i' = sched_i + 1
    /\ sched_pc' = IF sched_i + 1 < DAYS_FETCHED THEN "fetch" ELSE "sleep"
    /\ UNCHANGED <<sched_fired, sched_min_gap, sched_date, sched_dates, sched_failed>>

\* time.sleep(60) of either branch; the pass of the loop itself takes time too
SchedSleep ==
    /\ sched_pc = "sleep"
    /\ \E d \in 0..MaxIterSeconds :
        /\ clock' = AfterSleep(clock, d)
        /\ sched_since' = SinceAfter(sched_since, CHECK_SLEEP + d)
    /\ sched_pc' = "check"
    /\ UNCHANGED <<sched_i, sched_fired, sched_min_gap, sched_date, sched_dates, sched_failed>>


(***************************************************************************)
(* Two execution contexts (the manual fetch of main, scheduled_task), each  *)
(* with a store_fixture_async task on the same store                       *)
(***************************************************************************)
Contexts == {"manual", "scheduled"}

TwoInit ==
    /\ ctx_doc \in [Contexts -> FixtureDocs]
    /\ ctx_pc = [c \in Contexts |-> "created"]
    /\ ctx_record = [c \in Contexts |-> None]
    /\ ctx_clock = 0
    /\ ctx_order = <<>>

TwoIdle ==
    /\ ctx_doc = [c \in Contexts |-> [kind |-> "no_id", fixture_id |-> None, data |-> None]]
    /\ ctx_pc = [c \in Contexts |-> "off"]
    /\ ctx_record = [c \in Contexts |-> None]
    /\ ctx_clock = 0
    /\ ctx_order = <<>>

\* the task of context c runs up to its first suspension: the record is built
\* from the document and the clock alone, and the upsert is sent
CtxStart(c) ==
    /\ ctx_pc[c] = "created"
    /\ ctx_pc' = [ctx_pc EXCEPT ![c] = FirstStep(ctx_doc[c])]
    /\ ctx_record' = [ctx_record EXCEPT ![c] =
            IF MappingRaises(ctx_doc[c]) THEN None
            ELSE Some(fixture_record(ctx_doc[c], ctx_clock))]
    /\ \E tick \in 0..1 : ctx_clock' = ctx_clock + tick
    /\ UNCHANGED <<football_fixtures, ctx_doc, ctx_order>>

\* the store applies the upsert of context c in one step
CtxApplied(c) ==
    /\ ctx_pc[c] = "inflight"
    /\ football_fixtures' = Upsert(football_fixtures, Get(ctx_record[c]))
    /\ ctx_order' = Append(ctx_order, c)
    /\ ctx_pc' = [ctx_pc EXCEPT ![c] = "applied"]
    /\ UNCHANGED <<ctx_doc, ctx_record, ctx_clock>>

\* or rejects it
CtxRejected(c) ==
    /\ ctx_pc[c] = "inflight"
    /\ ctx_pc' = [ctx_pc EXCEPT ![c] = "rejected"]
    /\ UNCHANGED <<football_fixtures, ctx_doc, ctx_record, ctx_clock, ctx_order>>

\* the task resumes: return True, or the except branch returns False
CtxResume(c) ==
    /\ ctx_pc[c] \in {"applied", "rejected"}
    /\ ctx_pc' = [ctx_pc EXCEPT ![c] = IF ctx_pc[c] = "applied" THEN "True" ELSE "False"]
    /\ UNCHANGED <<football_fixtures, ctx_doc, ctx_record, ctx_clock, ctx_order>>

(***************************************************************************)
(* Two invocations of store_prediction_async for the same fixture id, each  *)
(* with the provider document its own request returned                     *)
(***************************************************************************)
StoreInvocations == {"first", "second"}

\* prediction_record / stats_record of an invocation: the fixture id and the
\* fields taken from its provider document
prediction_record_of(id, data) == [fixture_id |-> id, data |-> <<"prediction", data>>]
stats_record_of(id, data) == [fixture_id |-> id, data |-> <<"stats", data>>]

PairInit ==
    /\ pair_id \in FixtureIds
    /\ pair_data \in {f \in [StoreInvocations -> DataValues] : f["first"] # f["second"]}
    /\ pair_pc = [v \in StoreInvocations |-> "idle"]
    /\ pair_pred = [v \in StoreInvocations |-> "none"]
    /\ pair_stats = [v \in StoreInvocations |-> "none"]

PairIdle ==
    /\ pair_id = 1
    /\ pair_data = [v \in StoreInvocations |-> "a"]
    /\ pair_pc = [v \in StoreInvocations |-> "off"]
    /\ pair_pred = [v \in StoreInvocations |-> "none"]
    /\ pair_stats = [v \in StoreInvocations |-> "none"]

\* the invocation runs up to `await asyncio.gather(...)`: both records are
\* built and both upserts are sent
PairStart(v) ==
    /\ pair_pc[v] = "idle"
    /\ pair_pc' = [pair_pc EXCEPT ![v] = "gather"]
    /\ pair_pred' = [pair_pred EXCEPT ![v] = "inflight"]
    /\ pair_stats' = [pair_stats EXCEPT ![v] = "inflight"]
    /\ UNCHANGED <<football_predictions, football_predictions_stats, pair_id, pair_data>>

\* the store handles the football_predictions upsert of v: applied or rejected
PairPredApplied(v) ==
    /\ pair_pred[v] = "inflight"
    /\ football_predictions' =
          Upsert(football_predictions, prediction_record_of(pair_id, pair_data[v]))
    /\ pair_pred' = [pair_pred EXCEPT ![v] = "applied"]
    /\ UNCHANGED <<football_predictions_stats, pair_id, pair_data, pair_pc, pair_stats>>

PairPredRejected(v) ==
    /\ pair_pred[v] = "inflight"
    /\ pair_pred' = [pair_pred EXCEPT ![v] = "rejected"]
    /\ UNCHANGED <<football_predictions, football_predictions_stats, pair_id, pair_data,
                   pair_pc, pair_stats>>

\* the same for its football_predictions_stats upsert
PairStatsApplied(v) ==
    /\ pair_stats[v] = "inflight"
    /\ football_predictions_stats' =
          Upsert(football_predictions_stats, stats_record_of(pair_id, pair_data[v]))
    /\ pair_stats' = [pair_stats EXCEPT ![v] = "applied"]
    /\ UNCHANGED <<football_predictions, pair_id, pair_data, pair_pc, pair_pred>>

PairStatsRejected(v) ==
    /\ pair_stats[v] = "inflight"
    /\ pair_stats' = [pair_stats EXCEPT ![v] = "rejected"]
    /\ UNCHANGED <<football_predictions, football_predictions_stats, pair_id, pair_data,
                   pair_pc, pair_pred>>

\* gather returns when both upserts went through (return True) and raises at
\* the first one rejected (the except returns False; the other upsert is left
\* with the store)
PairResume(v) ==
    /\ pair_pc[v] = "gather"
    /\ \/ /\ pair_pred[v] = "applied" /\ pair_stats[v] = "applied"
          /\ pair_pc' = [pair_pc EXCEPT ![v] = "True"]
       \/ /\ pair_pred[v] = "rejected" \/ pair_stats[v] = "rejected"
          /\ pair_pc' = [pair_pc EXCEPT ![v] = "False"]
    /\ UNCHANGED <<football_predictions, football_predictions_stats, pair_id, pair_data,
                   pair_pred, pair_stats>>

(***************************************************************************)
(* fetch_fixtures(): the synchronous ingestion of fixtures_fetcher.py      *)
(***************************************************************************)
\* `if upsert_fixture(fixture): success_count += 1`
CountAfterMut(count, result) == count + 1
CountAfter(count, result) == IF result = "True" THEN count + 1 ELSE count

\* how the provider request can fail: requests.get or raise_for_status raises
\* a RequestException; response.json() or data["response"] raises another
\* exception
RequestFailures == {"request_failed", "unexpected"}

SyncInit ==
    /\ fixtures = {}
    /\ ff_response \in UNION {[1..n -> FixtureDocs] : n \in 0..MaxResponse}
    /\ ff_pc = "request"
    /\ ff_status = "none"
    /\ ff_calls = <<>>
    /\ ff_results = <<>>
    /\ success_count = 0
    /\ total_fixtures = 0

SyncIdle ==
    /\ ff_response = <<>>
    /\ ff_pc = "off"
    /\ ff_status = "none"
    /\ ff_calls = <<>>
    /\ ff_results = <<>>
    /\ success_count = 0
    /\ total_fixtures = 0

\* the request and the parse go through: success_count = 0,
\* total_fixtures = len(data["response"])
SyncRequest ==
    /\ ff_pc = "request"
    /\ ff_status' = "ok"
    /\ success_count' = 0
    /\ total_fixtures' = Len(ff_response)
    /\ ff_pc' = "loop"
    /\ UNCHANGED <<fixtures, ff_response, ff_calls, ff_results>>

\* the request or the parse raises: one of the two except branches prints
SyncRequestFailed ==
    /\ ff_pc = "request"
    /\ \E f \in RequestFailures : ff_status' = f
    /\ ff_pc' = "done"
    /\ UNCHANGED <<fixtures, ff_response, ff_calls, ff_results, success_count, total_fixtures>>

\* one pass of `for fixture in data["response"]`: the decorated upsert_fixture
\* is called with the next document; its body raises nothing, so the wrapper
\* returns what the body returns at the first attempt
SyncUpsert ==
    /\ ff_pc = "loop"
    /\ Len(ff_calls) < Len(ff_response)
    /\ LET doc == ff_response[Len(ff_calls) + 1]
       IN  \E store_ok \in BOOLEAN :
             /\ ff_calls' = Append(ff_calls, doc)
             /\ ff_results' = Append(ff_results, upsert_fixture_result(doc, store_ok))
             /\ success_count' = CountAfter(success_count, upsert_fixture_result(doc, store_ok))
             /\ fixtures' = IF ~MappingRaises(doc) /\ store_ok
                            THEN Upsert(fixtures, fixture_data(doc))
                            ELSE fixtures
    /\ UNCHANGED <<ff_response, ff_pc, ff_status, total_fixtures>>

\* the loop is exhausted: the summary is printed
SyncDone ==
    /\ ff_pc = "loop"
    /\ Len(ff_calls) = Len(ff_response)
    /\ ff_pc' = "done"
    /\ UNCHANGED <<fixtures, ff_response, ff_status, ff_calls, ff_results, success_count,
                   total_fixtures>>

vars == <<aggVars, retryVars, fixVars, predVars, aiVars, ufVars, rateVars, schedVars, twoVars, statVars, pairVars, syncVars>>

NextAgg == calculate_interval_averages /\ UNCHANGED <<retryVars, fixVars, predVars, aiVars, ufVars, rateVars, schedVars, twoVars, statVars, pairVars, syncVars>>

NextRetry ==
    \/ \E i \in Invocations : WrapperEnter(i) /\ UNCHANGED <<aggVars, fixVars, predVars, aiVars, ufVars, rateVars, schedVars, twoVars, statVars, pairVars, syncVars>>
    \/ \E i \in Invocations : WrapperLoop(i) /\ UNCHANGED <<aggVars, fixVars, predVars, aiVars, ufVars, rateVars, schedVars, twoVars, statVars, pairVars, syncVars>>
    \/ \E i \in Invocations : WrapperCall(i) /\ UNCHANGED <<aggVars, fixVars, predVars, aiVars, ufVars, rateVars, schedVars, twoVars, statVars, pairVars, syncVars>>
    \/ \E i \in Invocations : WrapperSleep(i) /\ UNCHANGED <<aggVars, fixVars, predVars, aiVars, ufVars, rateVars, schedVars, twoVars, statVars, pairVars, syncVars>>

NextFix ==
    \/ FetchFixturesCall /\ UNCHANGED <<aggVars, retryVars, predVars, aiVars, ufVars, rateVars, schedVars, twoVars, statVars, pairVars, syncVars>>
    \/ FetchFixturesError /\ UNCHANGED <<aggVars, retryVars, predVars, aiVars, ufVars, rateVars, schedVars, twoVars, statVars, pairVars, syncVars>>
    \/ FetchFixturesGather /\ UNCHANGED <<aggVars, retryVars, predVars, aiVars, ufVars, rateVars, schedVars, twoVars, statVars, pairVars, syncVars>>
    \/ \E k \in 1..Len(fx_tasks) : StoreFixtureStart(k) /\ UNCHANGED <<aggVars, retryVars, predVars, aiVars, ufVars, rateVars, schedVars, twoVars, statVars, pairVars, syncVars>>
    \/ \E k \in 1..Len(fx_tasks) : StoreFixtureApplied(k) /\ UNCHANGED <<aggVars, retryVars, predVars, aiVars, ufVars, rateVars, schedVars, twoVars, statVars, pairVars, syncVars>>
    \/ \E k \in 1..Len(fx_tasks) : StoreFixtureRejected(k) /\ UNCHANGED <<aggVars, retryVars, predVars, aiVars, ufVars, rateVars, schedVars, twoVars, statVars, pairVars, syncVars>>
    \/ \E k \in 1..Len(fx_tasks) : StoreFixtureResume(k) /\ UNCHANGED <<aggVars, retryVars, predVars, aiVars, ufVars, rateVars, schedVars, twoVars, statVars, pairVars, syncVars>>
    \/ GatherDone /\ UNCHANGED <<aggVars, retryVars, predVars, aiVars, ufVars, rateVars, schedVars, twoVars, statVars, pairVars, syncVars>>
    \/ GatherRaise /\ UNCHANGED <<aggVars, retryVars, predVars, aiVars, ufVars, rateVars, schedVars, twoVars, statVars, pairVars, syncVars>>
    \/ \E k \in 1..Len(fx_tasks) : CancelTask(k) /\ UNCHANGED <<aggVars, retryVars, predVars, aiVars, ufVars, rateVars, schedVars, twoVars, statVars, pairVars, syncVars>>
    \/ FetchFixturesReturn /\ UNCHANGED <<aggVars, retryVars, predVars, aiVars, ufVars, rateVars, schedVars, twoVars, statVars, pairVars, syncVars>>

NextPred ==
    \/ MainStart /\ UNCHANGED <<aggVars, retryVars, fixVars, aiVars, ufVars, rateVars, schedVars, twoVars, statVars, pairVars, syncVars>>
    \/ BatchCall /\ UNCHANGED <<aggVars, retryVars, fixVars, aiVars, ufVars, schedVars, twoVars, statVars, pairVars, syncVars>>
    \/ \E id \in PredIds : FetchPredictionResolve(id) /\ UNCHANGED <<aggVars, retryVars, fixVars, aiVars, ufVars, rateVars, schedVars, twoVars, statVars, pairVars, syncVars>>
    \/ BatchTake /\ UNCHANGED <<aggVars, retryVars, fixVars, aiVars, ufVars, rateVars, schedVars, twoVars, statVars, pairVars, syncVars>>
    \/ \E id \in PredIds : PredUpsertApplied(id) /\ UNCHANGED <<aggVars, retryVars, fixVars, aiVars, ufVars, rateVars, schedVars, twoVars, statVars, pairVars, syncVars>>
    \/ \E id \in PredIds : PredUpsertRejected(id) /\ UNCHANGED <<aggVars, retryVars, fixVars, aiVars, ufVars, rateVars, schedVars, twoVars, statVars, pairVars, syncVars>>
    \/ \E id \in PredIds : StatsUpsertApplied(id) /\ UNCHANGED <<aggVars, retryVars, fixVars, aiVars, ufVars, rateVars, schedVars, twoVars, statVars, pairVars, syncVars>>
    \/ \E id \in PredIds : StatsUpsertRejected(id) /\ UNCHANGED <<aggVars, retryVars, fixVars, aiVars, ufVars, rateVars, schedVars, twoVars, statVars, pairVars, syncVars>>
    \/ StorePredictionTrue /\ UNCHANGED <<aggVars, retryVars, fixVars, aiVars, ufVars, rateVars, schedVars, twoVars, statVars, pairVars, syncVars>>
    \/ StorePredictionFalse /\ UNCHANGED <<aggVars, retryVars, fixVars, aiVars, ufVars, rateVars, schedVars, twoVars, statVars, pairVars, syncVars>>
    \/ BatchReturn /\ UNCHANGED <<aggVars, retryVars, fixVars, aiVars, ufVars, rateVars, schedVars, twoVars, statVars, pairVars, syncVars>>
    \/ \E id \in PredIds : CancelPredUpsert(id) /\ UNCHANGED <<aggVars, retryVars, fixVars, aiVars, ufVars, rateVars, schedVars, twoVars, statVars, pairVars, syncVars>>
    \/ \E id \in PredIds : CancelStatsUpsert(id) /\ UNCHANGED <<aggVars, retryVars, fixVars, aiVars, ufVars, rateVars, schedVars, twoVars, statVars, pairVars, syncVars>>
    \/ MainAfterBatch /\ UNCHANGED <<aggVars, retryVars, fixVars, aiVars, ufVars, rateVars, schedVars, twoVars, statVars, pairVars, syncVars>>
    \/ MainSleep /\ UNCHANGED <<aggVars, retryVars, fixVars, aiVars, ufVars, schedVars, twoVars, statVars, pairVars, syncVars>>

NextAI ==
    \/ \E f \in FixtureIds : AskAI(f) /\ UNCHANGED <<aggVars, retryVars, fixVars, predVars, ufVars, rateVars, schedVars, twoVars, statVars, pairVars, syncVars>>
    \/ Invoke /\ UNCHANGED <<aggVars, retryVars, fixVars, predVars, ufVars, rateVars, schedVars, twoVars, statVars, pairVars, syncVars>>
    \/ ParseAndBuild /\ UNCHANGED <<aggVars, retryVars, fixVars, predVars, ufVars, rateVars, schedVars, twoVars, statVars, pairVars, syncVars>>
    \/ InsertApplied /\ UNCHANGED <<aggVars, retryVars, fixVars, predVars, ufVars, rateVars, schedVars, twoVars, statVars, pairVars, syncVars>>
    \/ InsertRejected /\ UNCHANGED <<aggVars, retryVars, fixVars, predVars, ufVars, rateVars, schedVars, twoVars, statVars, pairVars, syncVars>>
    \/ \E f \in FixtureIds : get_ai_prediction(f) /\ UNCHANGED <<aggVars, retryVars, fixVars, predVars, ufVars, rateVars, schedVars, twoVars, statVars, pairVars, syncVars>>

InitAgg == AggInit /\ RetryIdle /\ FixIdle /\ PredIdle /\ AiIdle /\ UfIdle /\ SchedIdle /\ TwoIdle /\ StatIdle /\ PairIdle /\ SyncIdle
InitRetry == RetryInit /\ AggIdle /\ FixIdle /\ PredIdle /\ AiIdle /\ UfIdle /\ SchedIdle /\ TwoIdle /\ StatIdle /\ PairIdle /\ SyncIdle
InitFix == FixInit /\ AggIdle /\ RetryIdle /\ PredIdle /\ AiIdle /\ UfIdle /\ SchedIdle /\ TwoIdle /\ StatIdle /\ PairIdle /\ SyncIdle
InitPred == PredInit /\ AggIdle /\ RetryIdle /\ FixIdle /\ AiIdle /\ UfIdle /\ SchedIdle /\ TwoIdle /\ StatIdle /\ PairIdle /\ SyncIdle
\* the except branch of the wrapper and its sleep are never reached from
\* upsert_fixture, whose body raises nothing
NextUpsert ==
    \/ \E i \in Invocations : WrapperEnter(i) /\ UNCHANGED <<aggVars, fixVars, predVars, aiVars, ufVars, rateVars, schedVars, twoVars, statVars, pairVars, syncVars>>
    \/ \E i \in Invocations : WrapperLoop(i) /\ UNCHANGED <<aggVars, fixVars, predVars, aiVars, ufVars, rateVars, schedVars, twoVars, statVars, pairVars, syncVars>>
    \/ \E i \in Invocations : UpsertFixtureCall(i) /\ UNCHANGED <<aggVars, fixVars, predVars, aiVars, rateVars, schedVars, twoVars, statVars, pairVars, syncVars>>

InitUpsert == UfInit /\ AggIdle /\ FixIdle /\ PredIdle /\ AiIdle /\ SchedIdle /\ TwoIdle /\ StatIdle /\ PairIdle /\ SyncIdle
NextSched ==
    \/ SchedCheck /\ UNCHANGED <<aggVars, retryVars, fixVars, predVars, aiVars, ufVars, rateVars, twoVars, statVars, pairVars, syncVars>>
    \/ SchedFetch /\ UNCHANGED <<aggVars, retryVars, fixVars, predVars, aiVars, ufVars, rateVars, twoVars, statVars, pairVars, syncVars>>
    \/ SchedPause /\ UNCHANGED <<aggVars, retryVars, fixVars, predVars, aiVars, ufVars, rateVars, twoVars, statVars, pairVars, syncVars>>
    \/ SchedSleep /\ UNCHANGED <<aggVars, retryVars, fixVars, predVars, aiVars, ufVars, rateVars, twoVars, statVars, pairVars, syncVars>>

InitSched == SchedInit /\ AggIdle /\ RetryIdle /\ FixIdle /\ PredIdle /\ AiIdle /\ UfIdle /\ TwoIdle /\ StatIdle /\ PairIdle /\ SyncIdle
NextTwo ==
    \/ \E c \in Contexts : CtxStart(c) /\ UNCHANGED <<aggVars, retryVars, fixRest, predVars, aiVars, ufVars, rateVars, schedVars, statVars, pairVars, syncVars>>
    \/ \E c \in Contexts : CtxApplied(c) /\ UNCHANGED <<aggVars, retryVars, fixRest, predVars, aiVars, ufVars, rateVars, schedVars, statVars, pairVars, syncVars>>
    \/ \E c \in Contexts : CtxRejected(c) /\ UNCHANGED <<aggVars, retryVars, fixRest, predVars, aiVars, ufVars, rateVars, schedVars, statVars, pairVars, syncVars>>
    \/ \E c \in Contexts : CtxResume(c) /\ UNCHANGED <<aggVars, retryVars, fixRest, predVars, aiVars, ufVars, rateVars, schedVars, statVars, pairVars, syncVars>>

InitTwo == TwoInit /\ AggIdle /\ RetryIdle /\ FixIdle /\ PredIdle /\ AiIdle /\ UfIdle /\ SchedIdle /\ StatIdle /\ PairIdle /\ SyncIdle
InitAI == AiInit /\ AggIdle /\ RetryIdle /\ FixIdle /\ PredIdle /\ UfIdle /\ SchedIdle /\ TwoIdle /\ StatIdle /\ PairIdle /\ SyncIdle

NextStat ==
    \/ ProcessTeamStats /\ UNCHANGED <<aggVars, retryVars, fixVars, predVars, aiVars, ufVars, rateVars, schedVars, twoVars, pairVars, syncVars>>
    \/ BuildStatsRecord /\ UNCHANGED <<aggVars, retryVars, fixVars, predVars, aiVars, ufVars, rateVars, schedVars, twoVars, pairVars, syncVars>>

InitStat == StatInit /\ AggIdle /\ RetryIdle /\ FixIdle /\ PredIdle /\ AiIdle /\ UfIdle /\ SchedIdle /\ TwoIdle /\ PairIdle /\ SyncIdle

NextPair ==
    \/ \E v \in StoreInvocations : PairStart(v) /\ UNCHANGED <<aggVars, retryVars, fixVars, predRest, aiVars, ufVars, rateVars, schedVars, twoVars, statVars, syncVars>>
    \/ \E v \in StoreInvocations : PairPredApplied(v) /\ UNCHANGED <<aggVars, retryVars, fixVars, predRest, aiVars, ufVars, rateVars, schedVars, twoVars, statVars, syncVars>>
    \/ \E v \in StoreInvocations : PairPredRejected(v) /\ UNCHANGED <<aggVars, retryVars, fixVars, predRest, aiVars, ufVars, rateVars, schedVars, twoVars, statVars, syncVars>>
    \/ \E v \in StoreInvocations : PairStatsApplied(v) /\ UNCHANGED <<aggVars, retryVars, fixVars, predRest, aiVars, ufVars, rateVars, schedVars, twoVars, statVars, syncVars>>
    \/ \E v \in StoreInvocations : PairStatsRejected(v) /\ UNCHANGED <<aggVars, retryVars, fixVars, predRest, aiVars, ufVars, rateVars, schedVars, twoVars, statVars, syncVars>>
    \/ \E v \in StoreInvocations : PairResume(v) /\ UNCHANGED <<aggVars, retryVars, fixVars, predRest, aiVars, ufVars, rateVars, schedVars, twoVars, statVars, syncVars>>

InitPair == PairInit /\ AggIdle /\ RetryIdle /\ FixIdle /\ PredIdle /\ AiIdle /\ UfIdle /\ SchedIdle /\ TwoIdle /\ StatIdle /\ SyncIdle

NextSync ==
    \/ SyncRequest /\ UNCHANGED <<aggVars, retryVars, fixVars, predVars, aiVars, ufRest, rateVars, schedVars, twoVars, statVars, pairVars>>
    \/ SyncRequestFailed /\ UNCHANGED <<aggVars, retryVars, fixVars, predVars, aiVars, ufRest, rateVars, schedVars, twoVars, statVars, pairVars>>
    \/ SyncUpsert /\ UNCHANGED <<aggVars, retryVars, fixVars, predVars, aiVars, ufRest, rateVars, schedVars, twoVars, statVars, pairVars>>
    \/ SyncDone /\ UNCHANGED <<aggVars, retryVars, fixVars, predVars, aiVars, ufRest, rateVars, schedVars, twoVars, statVars, pairVars>>

InitSync == SyncInit /\ AggIdle /\ RetryIdle /\ FixIdle /\ PredIdle /\ AiIdle /\ UfIdle /\ SchedIdle /\ TwoIdle /\ StatIdle /\ PairIdle

SpecAgg == InitAgg /\ [][NextAgg]_vars
SpecRetry == InitRetry /\ [][NextRetry]_vars
SpecFix == InitFix /\ [][NextFix]_vars
SpecPred == InitPred /\ [][NextPred]_vars
SpecAI == InitAI /\ [][NextAI]_vars
SpecUpsert == InitUpsert /\ [][NextUpsert]_vars
SpecSched == InitSched /\ [][NextSched]_vars
SpecTwo == InitTwo /\ [][NextTwo]_vars
SpecStat == InitStat /\ [][NextStat]_vars
SpecPair == InitPair /\ [][NextPair]_vars
SpecSync == InitSync /\ [][NextSync]_vars

(***************************************************************************)
(* Properties                                                              *)
(***************************************************************************)

\* C1: the wrapper made with max_attempts = 3, around an operation that raises
\* on every call, invokes the operation exactly 3 times and then returns False;
\* it never invokes it a fourth time and nothing is raised out of the wrapper.
C1_ThreeAttemptsThenFalse ==
    \A i \in Invocations :
        (max_attempts = 3 /\ rw_raised[i] = rw_calls[i]) =>
            /\ rw_calls[i] <= 3
            /\ rw_pc[i] = "done" => (rw_calls[i] = 3 /\ rw_result[i] = "False")

C1_Witness ==
    \E i \in Invocations :
        /\ max_attempts = 3
        /\ rw_pc[i] = "done"
        /\ rw_calls[i] = 3
        /\ rw_raised[i] = 3
        /\ rw_result[i] = "False"

\* the provider gave no usable response for id, or its store failed
ProviderFailed(id) == p_result[id] \in {"none", "empty"}
StoreFailed(id) ==
    p_result[id] = "no_field" \/ up_pred[id] = "rejected" \/ up_stats[id] = "rejected"

\* C2: fetch_predictions_batch returns (s, F) where F holds exactly the ids of
\* the batch whose provider call gave no document or an empty response list or
\* whose store failed, each once, and s counts the other ids; ids [1,2,3] with
\* an empty response list for id 2 give s = 2 and F = [2].
C2_BatchResult ==
    b_pc = "returned" =>
        /\ SeqSet(failed_predictions)
             = {id \in SeqSet(batch) : ProviderFailed(id) \/ StoreFailed(id)}
        /\ Len(failed_predictions) = Cardinality(SeqSet(failed_predictions))
        /\ successful_predictions
             = Cardinality({id \in SeqSet(batch) : ~ProviderFailed(id) /\ ~StoreFailed(id)})
        /\ successful_predictions + Len(failed_predictions) = Len(batch)
        /\ (batch = <<1, 2, 3>> /\ p_result[2] = "empty"
              /\ \A id \in {1, 3} : ~ProviderFailed(id) /\ ~StoreFailed(id))
           => (successful_predictions = 2 /\ failed_predictions = <<2>>)

C2_Witness ==
    /\ b_pc = "returned"
    /\ batch = <<1, 2, 3>>
    /\ p_result[2] = "empty"
    /\ completed = <<3, 2, 1>>
    /\ successful_predictions = 2
    /\ failed_predictions = <<2>>

\* C3 (as claimed): when fetch_and_store_fixtures got the provider's list, the
\* count it returns is the number of documents that did not fail (no required
\* field absent, upsert not rejected): one failing record never zeroes the count.
C3_CountIsNonFailing ==
    (fx_pc = "cleanup" /\ fx_status = "ok") =>
        Get(fx_return) = Len(fx_response) - Cardinality(fx_failed)

\* C4 (as claimed): the integer returned by a call of fetch_and_store_fixtures
\* equals the number of documents whose upsert the store applied in that call.
C4_CountIsRowsWritten ==
    \A r \in 1..Len(fx_history) : fx_history[r].count = fx_history[r].applied

\* C5: after any sequence of upserts football_fixtures holds at most one row per
\* fixture id, and that row is exactly the record of the latest upsert applied
\* for the id (every field of it, none of an earlier one).
C5_OneRowLatestRecord ==
    \A id \in FixtureIds :
        /\ Cardinality(RowsOf(football_fixtures, id)) <= 1
        /\ fx_upserts[id] = <<>> => RowsOf(football_fixtures, id) = {}
        /\ fx_upserts[id] # <<>> =>
             RowsOf(football_fixtures, id) = {fx_upserts[id][Len(fx_upserts[id])]}

C5_Witness ==
    \E id \in FixtureIds :
        /\ Len(fx_upserts[id]) >= 2
        /\ fx_upserts[id][1].data # fx_upserts[id][2].data
        /\ fx_upserts[id][1].created_at # fx_upserts[id][2].created_at
        /\ RowsOf(football_fixtures, id) = {fx_upserts[id][2]}

C7_ZeroGamesNoAverage ==
    (agg_pc = "done" /\ games_played = 0) =>
        (first_half = None /\ second_half = None /\ divisions = 0)

C7_Witness ==
    /\ agg_pc = "done"
    /\ games_played = 0
    /\ minute_data["0-15"] = [present |-> TRUE, total |-> Some(2)]
    /\ minute_data["46-60"] = [present |-> TRUE, total |-> Some(0)]
    /\ first_half = None
    /\ second_half = None

\* the three buckets of a half all have a null or missing total
AllNull(md, intervals) ==
    \A k \in 1..3 : (~md[intervals[k]].present) \/ md[intervals[k]].total = None

\* md with the buckets of the given half removed
Without(md, intervals) ==
    [i \in Intervals |->
        IF \E k \in 1..3 : intervals[k] = i THEN [present |-> FALSE, total |-> None] ELSE md[i]]

\* the sum of the non-null totals of a half
TotalOf(md, intervals) ==
    LET t(k) == IF md[intervals[k]].present /\ md[intervals[k]].total # None
                THEN Get(md[intervals[k]].total) ELSE 0
    IN  t(1) + t(2) + t(3)

\* C8: for games_played > 0 a half's average is None iff all three of its
\* buckets have a null or missing total; a half whose non-null buckets are all 0
\* gives 0.0; a half's result does not depend on the other half's buckets.
C8_NullIffNoData ==
    (agg_pc = "done" /\ games_played > 0) =>
        /\ first_half = None <=> AllNull(minute_data, first_half_intervals)
        /\ second_half = None <=> AllNull(minute_data, second_half_intervals)
        /\ (~AllNull(minute_data, first_half_intervals)
              /\ TotalOf(minute_data, first_half_intervals) = 0) => first_half = Some(0)
        /\ (~AllNull(minute_data, second_half_intervals)
              /\ TotalOf(minute_data, second_half_intervals) = 0) => second_half = Some(0)
        /\ first_half = CalcFirst(Without(minute_data, second_half_intervals), games_played)
        /\ second_half = CalcSecond(Without(minute_data, first_half_intervals), games_played)

C8_Witness ==
    /\ agg_pc = "done"
    /\ games_played = 3
    /\ minute_data["0-15"] = [present |-> TRUE, total |-> None]
    /\ minute_data["16-30"] = [present |-> TRUE, total |-> Some(0)]
    /\ minute_data["31-45"] = [present |-> FALSE, total |-> None]
    /\ AllNull(minute_data, second_half_intervals)
    /\ first_half = Some(0)
    /\ second_half = None

\* h is a hundredth nearest to n / g
NearestHundredth(h, n, g) ==
    LET d == 100 * n - h * g
    IN  2 * (IF d < 0 THEN -d ELSE d) <= g

\* C9: for games_played > 0 a half with at least one non-null bucket gets the
\* sum of its totals (null or missing as 0) divided by games_played, rounded to
\* two decimals; buckets {0-15: 2, 16-30: 0, 31-45: null} with 2 games give 1.0.
C9_AverageRounded ==
    (agg_pc = "done" /\ games_played > 0) =>
        /\ ~AllNull(minute_data, first_half_intervals) =>
             /\ first_half # None
             /\ NearestHundredth(Get(first_half),
                                 TotalOf(minute_data, first_half_intervals), games_played)
        /\ ~AllNull(minute_data, second_half_intervals) =>
             /\ second_half # None
             /\ NearestHundredth(Get(second_half),
                                 TotalOf(minute_data, second_half_intervals), games_played)
        /\ ( /\ games_played = 2
             /\ minute_data["0-15"] = [present |-> TRUE, total |-> Some(2)]
             /\ minute_data["16-30"] = [present |-> TRUE, total |-> Some(0)]
             /\ minute_data["31-45"] = [present |-> TRUE, total |-> None] )
           => first_half = Some(100)

C9_Witness ==
    /\ agg_pc = "done"
    /\ games_played = 2
    /\ minute_data["0-15"] = [present |-> TRUE, total |-> Some(2)]
    /\ minute_data["16-30"] = [present |-> TRUE, total |-> Some(0)]
    /\ minute_data["31-45"] = [present |-> TRUE, total |-> None]
    /\ first_half = Some(100)

\* the batch (0, 1, ...) the k-th fixture id of main belongs to
BatchOf(k) == (k - 1) \div BATCH_SIZE

\* the fetch of id and its store have resolved
PredictionResolved(id) ==
    /\ p_fetch[id] = "resolved"
    /\ ~(b_pc = "storing" /\ b_cur = id)
    /\ up_pred[id] # "inflight"
    /\ up_stats[id] # "inflight"

\* C10: with batches of BATCH_SIZE = 5 at most 5 provider prediction requests
\* are in flight at any time, and no request of a later batch is dispatched
\* before every fetch and store of the earlier batches has resolved.
C10_BoundedFanOut ==
    /\ Cardinality({id \in PredIds : p_fetch[id] = "inflight"}) <= 5
    /\ \A k, j \in 1..Len(fixture_ids) :
          (BatchOf(k) < BatchOf(j) /\ p_fetch[fixture_ids[j]] # "none")
              => PredictionResolved(fixture_ids[k])

C10_Witness ==
    /\ Len(fixture_ids) = 6
    /\ p_fetch[6] = "inflight"
    /\ \E id \in 1..5 : up_pred[id] = "cancelled" \/ up_stats[id] = "cancelled"
    /\ \A id \in 1..5 : PredictionResolved(id)

\* the outcome of one id, from what the provider gave and what the store did
\* with its two upserts
IdSucceeds(id) ==
    /\ p_result[id] = "ok"
    /\ up_pred[id] # "rejected"
    /\ up_stats[id] # "rejected"

\* the failed list and the count a run consuming the fetches in `order` gives
ExpectedFailed(order) == SelectSeq(order, LAMBDA id : ~IdSucceeds(id))
ExpectedCount(order) == Len(SelectSeq(order, LAMBDA id : IdSucceeds(id)))

\* C11: for fixed per-id provider and store outcomes every completion order of
\* the fetches of fetch_predictions_batch gives the success count and the set of
\* failed ids that consuming them in batch order gives; the failed list has its
\* entries in completion order.
C11_OrderIndependent ==
    b_pc = "returned" =>
        /\ successful_predictions = ExpectedCount(batch)
        /\ SeqSet(failed_predictions) = SeqSet(ExpectedFailed(batch))
        /\ Len(failed_predictions) = Len(ExpectedFailed(batch))
        /\ failed_predictions = ExpectedFailed(completed)

C11_Witness ==
    /\ b_pc = "returned"
    /\ batch = <<1, 2, 3>>
    /\ completed = <<3, 1, 2>>
    /\ successful_predictions = 1
    /\ failed_predictions = <<3, 1>>
    /\ ExpectedFailed(batch) = <<1, 3>>

\* C12 (as claimed): a store operation of the pipeline that fails is reported to
\* the caller as a boolean false, distinguishable from success.  Stated for the
\* insert of insert_match_predictions: when the store rejected the insert the
\* function returned False, and never the value it returns after an insert the
\* store applied.
C12_StoreFailureReported ==
    \A r, t \in 1..Len(ai_log) :
        ai_log[r].insert = "store_failed" =>
            /\ ai_log[r].returned = "False"
            /\ ai_log[t].insert = "inserted" => ai_log[t].returned # ai_log[r].returned

\* C13 (as claimed): upsert_fixture retries a store failure: a call given a
\* complete document returns False only after the store raised on 3 attempts,
\* and a call whose first upsert the store raised on makes a further attempt.
C13_RetriesStoreFailure ==
    \A i \in Invocations :
        (rw_pc[i] = "done" /\ ~MappingRaises(uf_doc[i])) =>
            /\ rw_result[i] = "False" => uf_store_raised[i] = UPSERT_MAX_ATTEMPTS
            /\ uf_store_raised[i] >= 1 => uf_store_calls[i] >= 2

\* C14: an invocation whose generation-service response does not parse as JSON
\* or lacks a required group or field inserts no row into match_predictions (the
\* table is as it was when the invocation started) and called the service once.
C14_ParseFailureTerminal ==
    /\ ai_invokes <= 1
    /\ ai_response \in {"unparsable", "no_group", "no_field"} =>
          (ai_pc # "insert" /\ match_predictions = ai_rows_before)
    /\ \A r \in 1..Len(ai_log) :
          ai_log[r].response \in {"unparsable", "no_group", "no_field"} =>
              /\ ai_log[r].insert \in {"not_called", "row_failed"}
              /\ ai_log[r].invokes = 1

C14_Witness ==
    /\ Len(ai_log) = 2
    /\ ai_log[1].insert = "inserted"
    /\ ai_log[2].response = "no_field"
    /\ ai_log[2].fixture = ai_log[1].fixture
    /\ ai_log[2].before = match_predictions
    /\ Cardinality(match_predictions) = 1

\* the finished invocations for a fixture whose insert the store applied
SuccessfulRuns(fixture) ==
    Cardinality({r \in 1..Len(ai_log) :
                    ai_log[r].fixture = fixture /\ ai_log[r].insert = "inserted"})

\* C15: every successful enrichment run appends one row to match_predictions and
\* changes no existing row, so a fixture has as many rows as it had successful
\* runs; get_ai_prediction returns True exactly when the query succeeded and
\* found at least one row for the fixture, False otherwise.
C15_AppendOnly ==
    /\ match_predictions = SeqSet(ai_inserted)
    /\ Cardinality(match_predictions) = Len(ai_inserted)
    /\ \A f \in FixtureIds :
          Cardinality(RowsOf(match_predictions, f)) = SuccessfulRuns(f)
    /\ \A r \in 1..Len(ai_log) :
          ai_log[r].before \subseteq match_predictions
    /\ q_result # None => (Get(q_result) <=> (q_ok /\ q_rows >= 1))
    /\ (q_result # None /\ q_ok) => q_rows <= SuccessfulRuns(q_fixture)

C15_Witness ==
    /\ Len(ai_log) = 2
    /\ ai_log[1].insert = "inserted"
    /\ ai_log[2].insert = "inserted"
    /\ ai_log[1].fixture = ai_log[2].fixture
    /\ Cardinality(RowsOf(match_predictions, ai_log[1].fixture)) = 2
    /\ q_result = Some(TRUE)
    /\ q_rows = 2

\* C16 (as claimed): while scheduled_task runs, the check made once a minute
\* lands inside the 00:01 minute of every day: once the clock has passed 00:01
\* of a day the three-day ingestion of that day has been started.
C16_FiresEveryDay ==
    \A d \in 0..MaxDays :
        clock >= d * SECONDS_PER_DAY + (TRIGGER_MINUTE + 1) * 60 => d \in sched_fired

\* C17 (as claimed): between any two successive provider prediction requests
\* main dispatches there is the delay of 1 second; no two are dispatched back to
\* back.
C17_DelayBetweenRequests ==
    \A k \in 2..Len(fixture_ids) :
        p_gap[fixture_ids[k]] # -1 => p_gap[fixture_ids[k]] >= 1

\* C17 (amended): the requests of one batch (at most BATCH_SIZE) are dispatched
\* together; between the requests of one batch and those of the next main
\* sleeps 1 second.
C17_DelayBetweenBatches ==
    \A k \in 2..Len(fixture_ids) :
        p_gap[fixture_ids[k]] # -1 =>
            p_gap[fixture_ids[k]] = (IF BatchOf(k) # BatchOf(k - 1) THEN 1 ELSE 0)

C17_Witness ==
    /\ Len(fixture_ids) = 6
    /\ p_gap[5] = 0
    /\ p_gap[6] = 1
    /\ p_fetch[6] = "inflight"

\* the other half of C17: successive fixture-date requests of scheduled_task
\* are at least 5 seconds apart
FixtureDateSpacing == sched_min_gap >= FIXTURE_DELAY

FixtureDateSpacingWitness ==
    /\ sched_fired # {}
    /\ sched_i = DAYS_FETCHED
    /\ sched_since # -1

\* the contexts whose upsert for fixture id the store has applied
AppliedFor(id) ==
    {c \in Contexts : (\E k \in 1..Len(ctx_order) : ctx_order[k] = c)
                        /\ Get(ctx_record[c]).fixture_id = id}

\* C18: when two execution contexts upsert the same fixture id at once with
\* different records, in every interleaving the table ends with exactly one row
\* for the id, and the row is the whole record of one of the two (of the one the
\* store applied last), never a mixture of their fields.
C18_OneWholeRecord ==
    \A id \in FixtureIds :
        /\ Cardinality(RowsOf(football_fixtures, id)) <= 1
        /\ AppliedFor(id) = {} => RowsOf(football_fixtures, id) = {}
        /\ AppliedFor(id) # {} =>
              /\ Cardinality(RowsOf(football_fixtures, id)) = 1
              /\ RowsOf(football_fixtures, id) \subseteq {Get(ctx_record[c]) : c \in AppliedFor(id)}
              /\ \E k \in 1..Len(ctx_order) :
                    /\ ctx_order[k] \in AppliedFor(id)
                    /\ \A j \in (k + 1)..Len(ctx_order) : ctx_order[j] \notin AppliedFor(id)
                    /\ RowsOf(football_fixtures, id) = {Get(ctx_record[ctx_order[k]])}

C18_Witness ==
    /\ ctx_order = <<"scheduled", "manual">>
    /\ Get(ctx_record["manual"]).fixture_id = Get(ctx_record["scheduled"]).fixture_id
    /\ Get(ctx_record["manual"]).data # Get(ctx_record["scheduled"]).data
    /\ Get(ctx_record["manual"]).created_at < Get(ctx_record["scheduled"]).created_at
    /\ football_fixtures = {Get(ctx_record["manual"])}

\* C19 (as claimed): when fetch_and_store_fixtures returns its count every store
\* task it dispatched has run to completion (returned True or False): none is
\* still unresolved, none is cancelled afterwards.
C19_AllTasksComplete ==
    /\ fx_pc = "cleanup" => \A k \in 1..Len(fx_tasks) : fx_tasks[k] \in {"True", "False"}
    /\ \A k \in 1..Len(fx_tasks) : fx_tasks[k] # "cancelled"

\* C20 (as claimed): after a prediction ingestion run a fixture id has a row in
\* football_predictions if and only if it has one in football_predictions_stats.
C20_OneToOne ==
    m_pc = "done" => IdsOf(football_predictions) = IdsOf(football_predictions_stats)

(***************************************************************************)
(* The wrapper run alone on a given sequence of outcomes of func           *)
(***************************************************************************)
RECURSIVE AloneFrom(_, _, _)
AloneFrom(outs, a, m) ==
    IF ~(a < m) THEN [result |-> "False", calls |-> a]
    ELSE IF a + 1 > Len(outs) THEN [result |-> "pending", calls |-> a]
    ELSE IF outs[a + 1] # "raise" THEN [result |-> outs[a + 1], calls |-> a + 1]
    ELSE IF a + 1 = m THEN [result |-> "False", calls |-> a + 1]
    ELSE AloneFrom(outs, a + 1, m)

Alone(outs, m) == AloneFrom(outs, 0, m)

\* C21: with two invocations of the wrapper interleaved in any order, each
\* calls its own func at most max_attempts times, and an invocation that has
\* returned made the calls and returned the result that the wrapper run alone
\* on the same outcomes of its own func makes and returns.
C21_NoSharedAttempts ==
    \A i \in Invocations :
        /\ rw_calls[i] <= max_attempts
        /\ rw_pc[i] = "done" =>
              /\ rw_result[i] = Alone(rw_outcomes[i], max_attempts).result
              /\ rw_calls[i] = Alone(rw_outcomes[i], max_attempts).calls

\* invocation 1 has failed twice and is still retrying while invocation 2,
\* started after those failures, has used every attempt and returned
C21_Witness ==
    /\ max_attempts = 3
    /\ rw_pc[1] = "sleep" /\ rw_raised[1] = 2
    /\ rw_pc[2] = "done" /\ rw_raised[2] = 3 /\ rw_result[2] = "False"

\* C27: an invocation that has returned after k >= 1 calls of func made no
\* call after the first one that did not raise, returned that call's result
\* (False when all max_attempts calls raised), and slept k-1 times
\* delay_seconds in all: nothing is slept after the last failure.  An
\* invocation still running has slept once per failure so far, less the
\* sleep it is about to do.
C27_SleepsBetweenAttempts ==
    \A i \in Invocations :
        LET outs == rw_outcomes[i]
            k == Len(outs)
        IN  /\ k = rw_calls[i]
            /\ \A j \in 1..(k - 1) : outs[j] = "raise"
            /\ (rw_pc[i] = "done" /\ k >= 1) =>
                  /\ rw_slept[i] = (k - 1) * delay_seconds
                  /\ outs[k] # "raise" => rw_result[i] = outs[k]
                  /\ outs[k] = "raise" => (k = max_attempts /\ rw_result[i] = "False")
            /\ rw_pc[i] = "sleep" => rw_slept[i] = (k - 1) * delay_seconds
            /\ rw_pc[i] \in {"loop", "call"} => rw_slept[i] = k * delay_seconds

\* one invocation returned True at its third attempt after two sleeps, the
\* other returned False after max_attempts failures and max_attempts-1 sleeps
C27_Witness ==
    /\ max_attempts = 4 /\ delay_seconds = 1
    /\ rw_pc[1] = "done" /\ rw_outcomes[1] = <<"raise", "raise", "True">> /\ rw_slept[1] = 2
    /\ rw_pc[2] = "done" /\ rw_raised[2] = 4 /\ rw_result[2] = "False" /\ rw_slept[2] = 3

\* the fixture ids a fixture run received from the provider, and the ids a
\* prediction run was given
ReceivedFixtureIds ==
    {Get(fx_response[k].fixture_id) : k \in {j \in 1..Len(fx_response) : ~MappingRaises(fx_response[j])}}
GivenPredictionIds == SeqSet(fixture_ids)

\* the rows of id in table did not change in this step, or id is one of ids
\* and its row is there after the step
OnlyWrites(table, tableNext, ids) ==
    /\ IdsOf(table) \subseteq IdsOf(tableNext)
    /\ \A r \in (table \cup tableNext) :
          RowsOf(tableNext, r.fixture_id) # RowsOf(table, r.fixture_id) =>
              /\ r.fixture_id \in ids
              /\ RowsOf(tableNext, r.fixture_id) # {}

\* C22: no step of a fixture or prediction ingestion run removes a fixture id
\* from football_fixtures, football_predictions or football_predictions_stats,
\* and a step changes only rows keyed by fixture ids the run received from the
\* provider or was given; rows of every other fixture id stay as they were.
C22_NoRowDeleted ==
    [][/\ OnlyWrites(football_fixtures, football_fixtures', ReceivedFixtureIds)
       /\ OnlyWrites(football_predictions, football_predictions', GivenPredictionIds)
       /\ OnlyWrites(football_predictions_stats, football_predictions_stats', GivenPredictionIds)]_vars

\* a second run rewrote the row of one fixture id and the row that the first
\* run wrote for another id is still there
C22_Witness ==
    \E r1, r2 \in football_fixtures :
        /\ r1.fixture_id # r2.fixture_id
        /\ r1.created_at = 2
        /\ r2.created_at = 1

\* v is what the half `intervals` of md averages to over g > 0 games: null when
\* no bucket of the half has a total, else the sum over g to the hundredth
IsAverage(v, md, intervals, g) ==
    IF AllNull(md, intervals) THEN v = None
    ELSE v # None /\ NearestHundredth(Get(v), TotalOf(md, intervals), g)

HomeKeys ==
    {"scored_home_first_half_average", "scored_home_second_half_average",
     "conceded_home_first_half_average", "conceded_home_second_half_average"}
AwayKeys ==
    {"scored_away_first_half_average", "scored_away_second_half_average",
     "conceded_away_first_half_average", "conceded_away_second_half_average"}
CardKeys == {"yellow_cards_first_half_average", "yellow_cards_second_half_average"}

\* C23: process_team_stats computes the home-venue averages of goals scored and
\* conceded over home_games, and only if home_games > 0; the away-venue ones
\* over away_games, only if away_games > 0; the yellow-card ones over
\* home_games + away_games, only if that is > 0; the stats record holds each
\* computed average and null for every average not computed.
C23_VenueDivisors ==
    ts_pc = "built" =>
        LET t == ts_team
            h == t.home_games
            a == t.away_games
        IN  /\ DOMAIN ts_stats = (IF h > 0 THEN HomeKeys ELSE {})
                                  \cup (IF a > 0 THEN AwayKeys ELSE {})
                                  \cup (IF h + a > 0 THEN CardKeys ELSE {})
            /\ h > 0 =>
                /\ IsAverage(ts_row["scored_home_first_half_average"], t.goals_for, first_half_intervals, h)
                /\ IsAverage(ts_row["scored_home_second_half_average"], t.goals_for, second_half_intervals, h)
                /\ IsAverage(ts_row["conceded_home_first_half_average"], t.goals_against, first_half_intervals, h)
                /\ IsAverage(ts_row["conceded_home_second_half_average"], t.goals_against, second_half_intervals, h)
            /\ a > 0 =>
                /\ IsAverage(ts_row["scored_away_first_half_average"], t.goals_for, first_half_intervals, a)
                /\ IsAverage(ts_row["scored_away_second_half_average"], t.goals_for, second_half_intervals, a)
                /\ IsAverage(ts_row["conceded_away_first_half_average"], t.goals_against, first_half_intervals, a)
                /\ IsAverage(ts_row["conceded_away_second_half_average"], t.goals_against, second_half_intervals, a)
            /\ h + a > 0 =>
                /\ IsAverage(ts_row["yellow_cards_first_half_average"], t.yellow_cards, first_half_intervals, h + a)
                /\ IsAverage(ts_row["yellow_cards_second_half_average"], t.yellow_cards, second_half_intervals, h + a)
            /\ \A k \in StatKeys \ DOMAIN ts_stats : ts_row[k] = None

\* one home game and two away games, 2 goals scored and 1 yellow card in the
\* first half: 2.0 per home game, 1.0 per away game, 0.33 cards per game
C23_Witness ==
    /\ ts_pc = "built"
    /\ ts_team.home_games = 1
    /\ ts_team.away_games = 2
    /\ ts_team.goals_for = MinuteDataOf(Some(2), None)
    /\ ts_team.yellow_cards = MinuteDataOf(Some(1), Some(2))
    /\ ts_row["scored_home_first_half_average"] = Some(200)
    /\ ts_row["scored_away_first_half_average"] = Some(100)
    /\ ts_row["scored_home_second_half_average"] = None
    /\ ts_row["yellow_cards_first_half_average"] = Some(33)
    /\ ts_row["yellow_cards_second_half_average"] = Some(67)

\* a team without home games: its home-venue averages are not computed and
\* are null in the record, the others are there
C23_WitnessNoHomeGames ==
    /\ ts_pc = "built"
    /\ ts_team.home_games = 0
    /\ ts_team.away_games = 2
    /\ ts_team.goals_for = MinuteDataOf(Some(2), Some(1))
    /\ DOMAIN ts_stats = AwayKeys \cup CardKeys
    /\ ts_row["scored_home_first_half_average"] = None
    /\ ts_row["scored_away_first_half_average"] = Some(100)

\* the ids and the number of rows football_fixtures held when call r started
IdsBefore(r) == IF r = 1 THEN {} ELSE fx_history[r - 1].ids
RowsBefore(r) == IF r = 1 THEN 0 ELSE fx_history[r - 1].rows

\* C24: a call of fetch_and_store_fixtures whose provider request failed
\* created no store task, had no upsert applied and returns 0, and the table
\* is after it as it was before; a fixture id whose prediction request gave no
\* document has no football_predictions or football_predictions_stats upsert
\* sent and no row, and is in the failed list when the batch returns and in
\* failed_ids when main is done.
C24_FailedRequestWritesNothing ==
    /\ fx_status = "error" =>
          /\ fx_tasks = <<>>
          /\ fx_applied = {}
          /\ fx_return = Some(0)
    /\ \A r \in 1..Len(fx_history) :
          fx_history[r].status = "error" =>
              /\ fx_history[r].count = 0
              /\ fx_history[r].applied = 0
              /\ fx_history[r].ids = IdsBefore(r)
              /\ fx_history[r].rows = RowsBefore(r)
    /\ \A id \in PredIds :
          (p_fetch[id] = "resolved" /\ p_result[id] = "none") =>
              /\ up_pred[id] = "none"
              /\ up_stats[id] = "none"
              /\ id \notin IdsOf(football_predictions)
              /\ id \notin IdsOf(football_predictions_stats)
              /\ (b_pc = "returned" /\ id \in SeqSet(batch)) => id \in SeqSet(failed_predictions)
              /\ m_pc = "done" => id \in SeqSet(failed_ids)

\* a first call stored rows, the provider request of the second failed: the
\* second returned 0 and the rows are as the first left them
C24_Witness ==
    /\ Len(fx_history) = 2
    /\ fx_history[1].status = "ok"
    /\ fx_history[1].rows >= 1
    /\ fx_history[2].status = "error"
    /\ fx_history[2].count = 0
    /\ fx_history[2].rows = fx_history[1].rows

\* main is done: one id had no document and is failed without a row, another
\* id of the run has both its rows
C24_WitnessPrediction ==
    /\ m_pc = "done"
    /\ \E id, other \in SeqSet(fixture_ids) :
          /\ p_result[id] = "none"
          /\ id \in SeqSet(failed_ids)
          /\ id \notin IdsOf(football_predictions)
          /\ other \in IdsOf(football_predictions)
          /\ other \in IdsOf(football_predictions_stats)

\* C25: the target dates a firing has requested so far are current_date,
\* current_date + 1, ... in that order, current_date being the UTC date of the
\* clock reading that fired; the loop is left only with all three requested,
\* whether or not an ingestion failed; FIXTURE_DELAY seconds pass after each
\* ingestion before the next request or the end of the loop.
C25_ThreeDatesInOrder ==
    /\ sched_fired = {} => sched_dates = <<>>
    /\ sched_fired # {} =>
          /\ sched_date \in sched_fired
          /\ \A d \in sched_fired : d <= sched_date
          /\ \A k \in 1..Len(sched_dates) : sched_dates[k] = sched_date + (k - 1)
          /\ Len(sched_dates) = (IF sched_pc = "fetch" THEN sched_i
                                 ELSE IF sched_pc = "pause" THEN sched_i + 1
                                 ELSE DAYS_FETCHED)
          /\ sched_pc \in {"sleep", "check"} => sched_dates = <<sched_date, sched_date + 1, sched_date + 2>>
    /\ sched_min_gap >= FIXTURE_DELAY
    /\ (sched_dates # <<>> /\ sched_pc \in {"fetch", "sleep"}) => sched_since = FIXTURE_DELAY

\* a firing on day 0 in which an ingestion failed has requested days 0, 1, 2
C25_Witness ==
    /\ sched_pc = "sleep"
    /\ sched_failed
    /\ sched_date = 0
    /\ sched_dates = <<0, 1, 2>>

\* C26: a clock reading taken by the loop on a day whose ingestion has already
\* been started is never in the 00:01 minute, so the ingestion of a UTC day is
\* started at most once.
C26_NoSecondFiring ==
    (sched_pc = "check" /\ DayOf(clock) \in sched_fired) => ~IsTriggerTime(clock)

\* fired at 00:01:00 with ingestions that took no time: the next reading is
\* taken 15 + 60 seconds later, on the same day
C26_Witness ==
    /\ sched_pc = "check"
    /\ 0 \in sched_fired
    /\ clock = 2 * CHECK_SLEEP + DAYS_FETCHED * FIXTURE_DELAY

\* C28 (as claimed): when a batch has returned, a fixture id in its failed list
\* has no upsert of this run applied and no row in football_predictions or
\* football_predictions_stats, and an id counted as a success (in the batch, not
\* in the failed list) has both rows.
C28_FailedMeansNothingWritten ==
    b_pc = "returned" =>
        \A id \in SeqSet(batch) :
            IF id \in SeqSet(failed_predictions)
            THEN /\ up_pred[id] # "applied"
                 /\ up_stats[id] # "applied"
                 /\ id \notin IdsOf(football_predictions)
                 /\ id \notin IdsOf(football_predictions_stats)
            ELSE /\ id \in IdsOf(football_predictions)
                 /\ id \in IdsOf(football_predictions_stats)

\* both invocations have returned and no upsert of theirs is with the store
PairSettled ==
    \A v \in StoreInvocations :
        /\ pair_pc[v] \in {"True", "False"}
        /\ pair_pred[v] # "inflight"
        /\ pair_stats[v] # "inflight"

\* C29 (as claimed): once two concurrent store_prediction_async invocations
\* for one fixture id have finished, the football_predictions row and the
\* football_predictions_stats row of the id carry the data of the same
\* invocation.
C29_RowsFromSameInvocation ==
    PairSettled =>
        \A rp \in RowsOf(football_predictions, pair_id) :
            \A rs \in RowsOf(football_predictions_stats, pair_id) :
                rp.data[2] = rs.data[2]

\* C30: fetch_fixtures passes the documents of the provider response to
\* upsert_fixture one by one in response order, each once, whatever the
\* earlier calls returned; success_count is the number of calls that returned
\* True, between 0 and the number of fixtures; when it has finished every
\* document has been passed; when the provider request failed no call is made.
C30_EachDocumentOnce ==
    /\ Len(ff_calls) <= Len(ff_response)
    /\ ff_calls = SubSeq(ff_response, 1, Len(ff_calls))
    /\ Len(ff_results) = Len(ff_calls)
    /\ success_count = Cardinality({k \in 1..Len(ff_results) : ff_results[k] = "True"})
    /\ 0 <= success_count /\ success_count <= Len(ff_response)
    /\ (ff_pc = "done" /\ ff_status = "ok") =>
          /\ ff_calls = ff_response
          /\ total_fixtures = Len(ff_response)
    /\ ff_status \in RequestFailures =>
          /\ ff_calls = <<>>
          /\ fixtures = {}

\* two documents: the call for the first returned False, the second was still
\* passed and returned True
C30_Witness ==
    /\ ff_pc = "done"
    /\ ff_status = "ok"
    /\ Len(ff_response) = 2
    /\ ff_results = <<"False", "True">>
    /\ success_count = 1
    /\ Cardinality(fixtures) = 1

\* the provider request failed and fetch_fixtures ended without a call
C30_WitnessRequestFailed ==
    /\ ff_pc = "done"
    /\ ff_status = "request_failed"
    /\ Len(ff_response) = 2
    /\ ff_calls = <<>>

====
